---- MODULE Spec2Model ----
\* Verification model of the prompt classification and theory-enhancement
\* engine of eduprompt-studio (generator/views.py, generator/analytics.py).
\* Texts are TLA+ strings; Python's string operations are modelled on them
\* character by character.
EXTENDS Integers, Sequences, FiniteSets, TLC

VARIABLES
    pc,             \* position of the call or request being processed
    call,           \* the arguments of the function under analysis
    ret,            \* the value it returned
    req,            \* generate_prompt: the HTTP request
    payload,        \* the body posted to the model API, with the model's name
    applied_theory, \* the local applied_theory of generate_prompt
    reply,          \* what requests.post gave: a response or an exception
    text_response,  \* the local text_response of generate_prompt
    response,       \* the JsonResponse returned to the browser
    sessions,       \* the session ids of the UserSession rows
    usage,          \* TemplateUsage: template_name -> usage_count
    records         \* the PromptGeneration rows, in creation order

call_vars == <<call, ret>>

request_vars ==
    <<req, payload, applied_theory, reply, text_response, response,
      sessions, usage, records>>

vars == <<pc, call_vars, request_vars>>

\* ------------------------------------------------------------------
\* Bounds of the model
\* ------------------------------------------------------------------
\* lines of prompt text after instruction 6
MaxTailLines == 1
\* words joined into one free-text form field
MaxWords == 2

\* ------------------------------------------------------------------
\* Python string primitives
\* ------------------------------------------------------------------
Min(S) == CHOOSE x \in S : \A y \in S : x <= y

\* `k in text`
Contains(text, k) ==
    \E i \in 1..(Len(text) - Len(k) + 1) : SubSeq(text, i, i + Len(k) - 1) = k

\* any(keyword in text for keyword in kws)
AnyIn(kws, text) == \E k \in kws : Contains(text, k)

\* text.find(sub, start): lowest 0-based index at or after start, or -1
find(text, sub, start) ==
    LET hits == {i \in start..(Len(text) - Len(sub)) :
                    SubSeq(text, i + 1, i + Len(sub)) = sub}
    IN IF hits = {} THEN -1 ELSE Min(hits)

\* text[:k] and text[k:] for 0 <= k; a slice past the end stops at the end
SliceTo(text, k) == SubSeq(text, 1, IF k > Len(text) THEN Len(text) ELSE k)
SliceFrom(text, k) == SubSeq(text, k + 1, Len(text))

\* text.startswith(prefix) and text.endswith(suffix)
startswith(text, prefix) == SliceTo(text, Len(prefix)) = prefix
endswith(text, suffix) ==
    Len(suffix) <= Len(text) /\ SliceFrom(text, Len(text) - Len(suffix)) = suffix

Whitespace == {" ", "\n", "\t", "\r"}

\* the positions at which a word of text.split() starts
WordStarts(text) ==
    {i \in 1..Len(text) :
        /\ SubSeq(text, i, i) \notin Whitespace
        /\ (i = 1 \/ SubSeq(text, i - 1, i - 1) \in Whitespace)}

\* the word of text.split() that starts at position i
WordAt(text, i) ==
    LET ends == {j \in i..Len(text) :
                    j = Len(text) \/ SubSeq(text, j + 1, j + 1) \in Whitespace}
    IN SubSeq(text, i, Min(ends))

\* set(text.split())
split(text) == {WordAt(text, i) : i \in WordStarts(text)}

UpperLetters == "ABCDEFGHIJKLMNOPQRSTUVWXYZΑΒΓΔΕΖΗΘΙΚΛΜΝΞΟΠΡΣΤΥΦΧΨΩΆΈΉΊΌΎΏ"
LowerLetters == "abcdefghijklmnopqrstuvwxyzαβγδεζηθικλμνξοπρστυφχψωάέήίόύώ"

\* the lower-case form of every capital letter, and the set of letters
LowerMap ==
    [c \in {SubSeq(UpperLetters, i, i) : i \in 1..Len(UpperLetters)} |->
        LET i == CHOOSE i \in 1..Len(UpperLetters) : SubSeq(UpperLetters, i, i) = c
        IN SubSeq(LowerLetters, i, i)]

Letters ==
    DOMAIN LowerMap \cup {"ς"}
    \cup {SubSeq(LowerLetters, i, i) : i \in 1..Len(LowerLetters)}

\* one character of text.lower(); a capital sigma that ends a word becomes
\* the final sigma
LowerAt(text, i) ==
    LET c == SubSeq(text, i, i)
    IN IF c \notin DOMAIN LowerMap THEN c
       ELSE IF c = "Σ" /\ i > 1 /\ SubSeq(text, i - 1, i - 1) \in Letters
                 /\ (i = Len(text) \/ SubSeq(text, i + 1, i + 1) \notin Letters)
       THEN "ς"
       ELSE LowerMap[c]

\* the lower-case form of text[lo..hi], halving the range to keep the
\* evaluation shallow
RECURSIVE LowerRange(_, _, _)
LowerRange(text, lo, hi) ==
    IF lo > hi THEN ""
    ELSE IF lo = hi THEN LowerAt(text, lo)
    ELSE LET mid == (lo + hi) \div 2
         IN LowerRange(text, lo, mid) \o LowerRange(text, mid + 1, hi)

\* text.lower()
lower(text) == LowerRange(text, 1, Len(text))

\* ------------------------------------------------------------------
\* Texts in the state
\* ------------------------------------------------------------------
\* The state holds every text in a 7-bit spelling: a Greek letter is written
\* as "~" and a Latin letter, an accented one as "^" and a Latin letter, and
\* every other character as itself. The operators of the program work on the
\* text itself: Decode reads the spelling back, Encode writes it.
GreekLetters == "ΑΒΓΔΕΖΗΘΙΚΛΜΝΞΟΠΡΣΤΥΦΧΨΩαβγδεζηθικλμνξοπρστυφχψως"
GreekSpelling == "ABGDEZHQIKLMNXOPRSTUFCYWabgdezhqiklmnxoprstufcywj"
AccentedLetters == "ΆΈΉΊΌΎΏάέήίόύώϊϋΐΰ→"
AccentedSpelling == "AEHIOUWaehiouw1234>"

SpellingOf ==
    [c \in {SubSeq(GreekLetters, i, i) : i \in 1..Len(GreekLetters)}
           \cup {SubSeq(AccentedLetters, i, i) : i \in 1..Len(AccentedLetters)} |->
        IF \E i \in 1..Len(GreekLetters) : SubSeq(GreekLetters, i, i) = c
        THEN LET i == CHOOSE i \in 1..Len(GreekLetters) : SubSeq(GreekLetters, i, i) = c
             IN "~" \o SubSeq(GreekSpelling, i, i)
        ELSE LET i == CHOOSE i \in 1..Len(AccentedLetters) :
                          SubSeq(AccentedLetters, i, i) = c
             IN "^" \o SubSeq(AccentedSpelling, i, i)]

LetterOf == [w \in {SpellingOf[c] : c \in DOMAIN SpellingOf} |->
                CHOOSE c \in DOMAIN SpellingOf : SpellingOf[c] = w]

\* the spelling of text[lo..hi], halving the range to keep the evaluation shallow
RECURSIVE EncodeRange(_, _, _)
EncodeRange(text, lo, hi) ==
    IF lo > hi THEN ""
    ELSE IF lo = hi
    THEN LET c == SubSeq(text, lo, lo)
         IN IF c \in DOMAIN SpellingOf THEN SpellingOf[c] ELSE c
    ELSE LET mid == (lo + hi) \div 2
         IN EncodeRange(text, lo, mid) \o EncodeRange(text, mid + 1, hi)

Encode(text) == EncodeRange(text, 1, Len(text))

\* the text spelled by word[lo..hi]; a character after a mark belongs to the mark
RECURSIVE DecodeRange(_, _, _)
DecodeRange(word, lo, hi) ==
    IF lo > hi THEN ""
    ELSE IF lo = hi
    THEN LET c == SubSeq(word, lo, lo)
         IN IF c \in {"~", "^"} THEN LetterOf[SubSeq(word, lo, lo + 1)]
            ELSE IF lo > 1 /\ SubSeq(word, lo - 1, lo - 1) \in {"~", "^"} THEN ""
            ELSE c
    ELSE LET mid == (lo + hi) \div 2
         IN DecodeRange(word, lo, mid) \o DecodeRange(word, mid + 1, hi)

Decode(word) == DecodeRange(word, 1, Len(word))

\* ------------------------------------------------------------------
\* views.py: theory suggestion
\* ------------------------------------------------------------------
\* suggest_optimal_theory with the third and the fourth methodology group in
\* each other's place
suggest_optimal_theory_swapped(methodology, task, context) ==
    LET methodology_lower == lower(methodology)
        task_lower == lower(task)
        context_lower == lower(context)
    IN
       IF AnyIn({"διερευνητική", "εξερεύνηση", "ανακάλυψη", "πρόβλημα"}, methodology_lower)
       THEN "constructivist"
       ELSE IF AnyIn({"συνεργατική", "ομάδα", "ομαδική", "συνεργασία"}, methodology_lower)
       THEN "social_learning"
       ELSE IF AnyIn({"διαφοροποιημένη", "προσαρμοστική", "εξατομικευμένη"}, methodology_lower)
       THEN "udl"
       ELSE IF AnyIn({"τεχνολογία", "ψηφιακή", "ai"}, methodology_lower)
       THEN "tpack"
       ELSE IF AnyIn({"υποστήριξη", "καθοδήγηση", "scaffolding"}, methodology_lower)
       THEN "scaffolding"
       ELSE IF AnyIn({"κριτική σκέψη", "ερωτήσεις", "ανάλυση"}, task_lower)
       THEN "blooms"
       ELSE IF AnyIn({"αξιολόγηση", "κουίζ", "ρουμπρίκα"}, task_lower)
       THEN "blooms"
       ELSE IF AnyIn({"σχέδιο μαθήματος", "πλάνο μαθήματος", "αναλυτικό πρόγραμμα"}, task_lower)
       THEN "blooms"
       ELSE IF AnyIn({"διαφοροποιημένη", "πολλαπλές νοημοσύνες"}, task_lower)
       THEN "differentiation"
       ELSE IF AnyIn({"μικτό επίπεδο", "ειδικές ανάγκες", "μαθησιακές δυσκολίες"}, context_lower)
       THEN "udl"
       ELSE "blooms"

suggest_optimal_theory(methodology, task, context) ==
    LET methodology_lower == lower(methodology)
        task_lower == lower(task)
        context_lower == lower(context)
    IN
       IF AnyIn({"διερευνητική", "εξερεύνηση", "ανακάλυψη", "πρόβλημα"}, methodology_lower)
       THEN "constructivist"
       ELSE IF AnyIn({"συνεργατική", "ομάδα", "ομαδική", "συνεργασία"}, methodology_lower)
       THEN "social_learning"
       ELSE IF AnyIn({"τεχνολογία", "ψηφιακή", "ai"}, methodology_lower)
       THEN "tpack"
       ELSE IF AnyIn({"διαφοροποιημένη", "προσαρμοστική", "εξατομικευμένη"}, methodology_lower)
       THEN "udl"
       ELSE IF AnyIn({"υποστήριξη", "καθοδήγηση", "scaffolding"}, methodology_lower)
       THEN "scaffolding"
       ELSE IF AnyIn({"κριτική σκέψη", "ερωτήσεις", "ανάλυση"}, task_lower)
       THEN "blooms"
       ELSE IF AnyIn({"αξιολόγηση", "κουίζ", "ρουμπρίκα"}, task_lower)
       THEN "blooms"
       ELSE IF AnyIn({"σχέδιο μαθήματος", "πλάνο μαθήματος", "αναλυτικό πρόγραμμα"}, task_lower)
       THEN "blooms"
       ELSE IF AnyIn({"διαφοροποιημένη", "πολλαπλές νοημοσύνες"}, task_lower)
       THEN "differentiation"
       ELSE IF AnyIn({"μικτό επίπεδο", "ειδικές ανάγκες", "μαθησιακές δυσκολίες"}, context_lower)
       THEN "udl"
       ELSE "blooms"

\* ------------------------------------------------------------------
\* views.py: the seven enhancement generators
\* ------------------------------------------------------------------
\* views.py 86-99: generate_blooms_enhancement
generate_blooms_enhancement(form_data) ==
    LET task == lower(form_data.task)
    IN
       IF AnyIn({"κριτική σκέψη", "ερωτήσεις", "ανάλυση"}, task)
       THEN "Δόμησε τις ερωτήσεις ώστε να προχωρούν από ανάλυση (ανάλυση εννοιών) σε αξιολόγηση (κρίση ποιότητας/αξίας) σε δημιουργία (παραγωγή νέων ιδεών), ακολουθώντας τα γνωστικά επίπεδα της Ταξινομίας Bloom"
       ELSE IF AnyIn({"άσκηση", "ασκήσεις", "δραστηριότητες"}, task)
       THEN "Σχεδίασε δραστηριότητες που καλύπτουν: θυμάμαι (ανάκληση γεγονότων) → κατανοώ (εξήγηση εννοιών) → εφαρμόζω (χρήση γνώσης) → αναλύω (εξέταση σχέσεων), προοδευτικά μέσα από την Ταξινομία Bloom"
       ELSE IF AnyIn({"αξιολόγηση", "κουίζ", "ρουμπρίκα"}, task)
       THEN "Συμπεριέλαβε στοιχεία αξιολόγησης που καλύπτουν πολλαπλά γνωστικά επίπεδα: απομνημόνευση βασικών γεγονότων, κατανόηση κύριων εννοιών, εφαρμογή γνώσης σε νέες καταστάσεις, και ανάλυση σύνθετων σεναρίων (Ταξινομία Bloom)"
       ELSE IF AnyIn({"σχέδιο μαθήματος", "πλάνο μαθήματος", "εισαγωγή"}, task)
       THEN "Δόμησε το μάθημα ώστε να προχωρά μέσα από γνωστικά επίπεδα από θεμελιώδη γνώση (θυμάμαι/κατανοώ) σε εφαρμογή και σκέψη υψηλότερης τάξης (αναλύω/αξιολογώ/δημιουργώ), ακολουθώντας την Ταξινομία Bloom"
       ELSE "Ενσωμάτωσε γνωστική πρόοδο από βασική ανάκληση σε δεξιότητες σκέψης υψηλότερης τάξης, ακολουθώντας τα επίπεδα της Ταξινομίας Bloom"

\* views.py 101-110: generate_udl_enhancement
generate_udl_enhancement(form_data) ==
    LET context == lower(form_data.context)
    IN
       IF AnyIn({"μικτό επίπεδο", "μαθησιακές δυσκολίες", "ειδικές ανάγκες"}, context)
       THEN "Παρέχε πολλαπλά μέσα αναπαράστασης (οπτικά, ακουστικά, απτικά), πολλαπλά μέσα αφοσίωσης (επιλογή, συνάφεια, επίπεδα πρόκλησης), και πολλαπλά μέσα έκφρασης (προφορικά, γραπτά, επίδειξη) για να υποστηρίξεις διαφορετικούς μαθητές (αρχές UDL)"
       ELSE IF AnyIn({"δεύτερη γλώσσα", "ξένη γλώσσα"}, context)
       THEN "Συμπεριέλαβε οπτικές υποστηρίξεις, απλοποιημένες γλωσσικές επιλογές, και πολλαπλούς τρόπους επίδειξης κατανόησης για να φιλοξενήσεις μαθητές γλώσσας (αρχές UDL)"
       ELSE "Σχεδίασε με ευελιξία στην παρουσίαση περιεχομένου, στις μεθόδους αφοσίωσης μαθητών, και στις μορφές έκφρασης για να φιλοξενήσεις διαφορετικές μαθησιακές ανάγκες (αρχές UDL)"

\* views.py 112-131: generate_tpack_enhancement
generate_tpack_enhancement(form_data) ==
    LET task == lower(form_data.task)
        methodology == lower(form_data.methodology)
        subject == lower(form_data.subject)
    IN
       IF AnyIn({"σχέδιο μαθήματος", "πλάνο μαθήματος", "αναλυτικό πρόγραμμα", "πλήρες πλάνο"}, task)
       THEN "Καθόρισε ρητά: (1) ποια εργαλεία/χαρακτηριστικά AI θα χρησιμοποιηθούν, (2) πώς υποστηρίζουν συγκεκριμένους μαθησιακούς στόχους, (3) ποιος παιδαγωγικός ρόλος παίζει η τεχνολογία στη διδασκαλία, και (4) πώς τα ψηφιακά εργαλεία ενισχύουν την κατανόηση περιεχομένου αντί να αντικαθιστούν τη διδασκαλία (πλαίσιο TPACK)"
       ELSE IF AnyIn({"αξιολόγηση", "κουίζ", "ρουμπρίκα"}, task)
       THEN "Λεπτομέρησε πώς τα εργαλεία αξιολόγησης που ενισχύονται με AI θα μετρήσουν την κατανόηση, καθόρισε την παιδαγωγική αιτιολογία για τη χρήση τεχνολογίας στην αξιολόγηση, και εξήγησε πώς η ψηφιακή αξιολόγηση συνδέεται με τους μαθησιακούς στόχους (πλαίσιο TPACK)"
       ELSE IF AnyIn({"άσκηση", "ασκήσεις", "δραστηριότητες"}, task)
       THEN "Περίγραψε συγκεκριμένα εργαλεία εξάσκησης που τροφοδοτούνται από AI, εξήγησε πώς η τεχνολογία εξατομικεύει την εξάσκηση, λεπτομέρησε τα παιδαγωγικά οφέλη των ψηφιακών ασκήσεων, και καθόρισε πώς η ανατροφοδότηση AI υποστηρίζει την ανάπτυξη δεξιοτήτων (πλαίσιο TPACK)"
       ELSE IF AnyIn({"ai", "τεχνολογία", "ψηφιακή"}, methodology)
       THEN "Καθόρισε σαφώς τον παιδαγωγικό ρόλο του AI, προσδιόρισε πώς η τεχνολογία ενισχύει τις μεθόδους διδασκαλίας, εξήγησε τη σύνδεση μεταξύ ψηφιακών εργαλείων και κυριαρχίας περιεχομένου, και δικαιολόγησε τις τεχνολογικές επιλογές με εκπαιδευτική θεωρία (πλαίσιο TPACK)"
       ELSE "Συμπεριέλαβε συγκεκριμένες λεπτομέρειες για το: πώς η τεχνολογία υποστηρίζει τους μαθησιακούς στόχους, ποιος παιδαγωγικός σκοπός εξυπηρετεί το AI, και πώς τα ψηφιακά εργαλεία ενισχύουν αντί να αντικαθιστούν αποτελεσματικές διδακτικές πρακτικές (πλαίσιο TPACK)"

\* views.py 133-142: generate_constructivist_enhancement
generate_constructivist_enhancement(form_data) ==
    LET methodology == lower(form_data.methodology)
    IN
       IF AnyIn({"διερευνητική", "ανακάλυψη", "εξερεύνηση"}, methodology)
       THEN "Υποστήριξε την ενεργή κατασκευή γνώσης μέσω καθοδηγούμενης ανακάλυψης, ενθαρρύνοντας τους μαθητές να χτίσουν κατανόηση μέσω πρακτικής εξερεύνησης και ουσιαστικών συνδέσεων με προηγούμενη γνώση"
       ELSE IF AnyIn({"πρόβλημα", "πραγματικός κόσμος", "πραγματικές καταστάσεις"}, methodology)
       THEN "Διευκόλυνε τη μάθηση μέσω αυθεντικών εμπειριών επίλυσης προβλημάτων όπου οι μαθητές κατασκευάζουν γνώση συνδέοντας νέες πληροφορίες με υπάρχουσα κατανόηση και πραγματικά πλαίσια"
       ELSE "Ενθάρρυνε την ενεργή κατασκευή γνώσης μέσω πρακτικών εμπειριών, στοχασμού, και δημιουργίας συνδέσεων αντί για παθητική λήψη πληροφοριών"

\* views.py 144-153: generate_social_learning_enhancement
generate_social_learning_enhancement(form_data) ==
    LET methodology == lower(form_data.methodology)
    IN
       IF AnyIn({"συνεργατική", "ομάδα", "ομαδική", "συνεργασία"}, methodology)
       THEN "Αξιοποίησε την αλληλεπίδραση μεταξύ συνομηλίκων και τις ευκαιρίες συνεργατικής μάθησης όπου οι μαθητές μαθαίνουν μέσω παρατήρησης, συζήτησης, και κοινής κατασκευής γνώσης σε κοινωνικά πλαίσια"
       ELSE IF AnyIn({"συζήτηση", "ομαδική εργασία"}, methodology)
       THEN "Δημιούργησε δομημένες ευκαιρίες για κοινωνική μάθηση μέσω μοντελοποίησης από συνομηλίκους, συνεργατικής επίλυσης προβλημάτων, και κοινού στοχασμού για τις μαθησιακές διαδικασίες"
       ELSE "Ενσωμάτωσε αλληλεπίδραση με συνομηλίκους και ευκαιρίες κοινωνικής μάθησης για να ενισχύσεις την κατανόηση μέσω κοινής κατασκευής γνώσης"

\* views.py 155-167: generate_scaffolding_enhancement
generate_scaffolding_enhancement(form_data) ==
    LET context == lower(form_data.context)
        task == lower(form_data.task)
    IN
       IF AnyIn({"3-5", "νηπιαγωγείο", "προσχολική"}, context)
       THEN "Παρέχε εκτενή υποστήριξη με συγκεκριμένα παραδείγματα, πρακτικά υλικά, και βήμα-προς-βήμα καθοδήγηση, μειώνοντας σταδιακά την υποστήριξη καθώς τα παιδιά αναπτύσσουν αυτονομία"
       ELSE IF AnyIn({"6-11", "δημοτικό", "πρωτοβάθμια"}, context)
       THEN "Συμπεριέλαβε υποστηρίξεις όπως γραφικούς οργανωτές, επεξεργασμένα παραδείγματα, και καθοδηγούμενη εξάσκηση, με σαφή βήματα προς ανεξάρτητη εφαρμογή"
       ELSE IF AnyIn({"σύνθετη", "προχωρημένη", "δύσκολη"}, task)
       THEN "Διαίρεσε σύνθετες εργασίες σε διαχειρίσιμα βήματα με προσωρινές υποστηρίξεις, μοντελοποίηση, και καθοδηγούμενη εξάσκηση πριν αναμένεις ανεξάρτητη επίδοση"
       ELSE "Παρέχε κατάλληλες υποστηρίξεις που μπορούν να αφαιρεθούν σταδιακά καθώς οι μαθητές αναπτύσσουν ικανότητα και αυτοπεποίθηση"

\* views.py 169-178: generate_differentiation_enhancement
generate_differentiation_enhancement(form_data) ==
    LET task == lower(form_data.task)
    IN
       IF AnyIn({"διαφοροποιημένη", "πολλαπλές νοημοσύνες"}, task)
       THEN "Απευθύνσου σε διαφορετικές μαθησιακές προτιμήσεις μέσω ποικίλης παρουσίασης περιεχομένου, επιλογών διαδικασίας, και επιλογών προϊόντος, επιτρέποντας πολλαπλές διαδρομές για επίδειξη κατανόησης"
       ELSE IF AnyIn({"προσαρμοστική", "εξατομικευμένη"}, task)
       THEN "Παρέχε ευέλικτες μαθησιακές επιλογές που προσαρμόζονται στις ατομικές ανάγκες, ενδιαφέροντα, και επίπεδα ετοιμότητας των μαθητών μέσω ποικίλων διδακτικών προσεγγίσεων"
       ELSE "Συμπεριέλαβε στρατηγικές διαφοροποίησης που απευθύνονται σε διαφορετικά μαθησιακά στυλ, ικανότητες, και ενδιαφέροντα μέσω πολλαπλών διδακτικών προσεγγίσεων"

\* ------------------------------------------------------------------
\* views.py: add_selected_theory_enhancement
\* ------------------------------------------------------------------
InstructionsHeader == "Οδηγίες:"
Instruction6Anchor == "6. Κράτησέ την επαγγελματική και εστιασμένη στην εκπαιδευτική εργασία"
Instruction7Label == "7. ΣΗΜΑΝΤΙΚΟ: "
FallbackLabel == "\n\nΕκπαιδευτική Ενίσχυση: "

\* resolve_theory falling back on the default theory without asking the
\* suggester
resolve_theory_default(form_data, selected_theory) ==
    IF selected_theory = "" THEN "blooms" ELSE selected_theory

\* "if not selected_theory: selected_theory = suggest_optimal_theory(...)"
resolve_theory(form_data, selected_theory) ==
    IF selected_theory = ""
    THEN suggest_optimal_theory(form_data.methodology, form_data.task, form_data.context)
    ELSE selected_theory

\* the dict theory_enhancements, one generated sentence per theory
theory_enhancements(form_data) ==
    [blooms |-> generate_blooms_enhancement(form_data),
     udl |-> generate_udl_enhancement(form_data),
     tpack |-> generate_tpack_enhancement(form_data),
     constructivist |-> generate_constructivist_enhancement(form_data),
     social_learning |-> generate_social_learning_enhancement(form_data),
     scaffolding |-> generate_scaffolding_enhancement(form_data),
     differentiation |-> generate_differentiation_enhancement(form_data)]

\* insert_at resuming one character too late
insert_at_skipping(prompt, pos, text) ==
    SliceTo(prompt, pos) \o text \o SliceFrom(prompt, pos + 1)

\* prompt[:pos] + text + prompt[pos:]
insert_at(prompt, pos, text) ==
    SliceTo(prompt, pos) \o text \o SliceFrom(prompt, pos)

\* prompt.find("\n", instruction_6_end) + 1
end_of_line(prompt, from) == find(prompt, "\n", from) + 1

\* the body of "if selected_theory in theory_enhancements:"
apply_enhancement(prompt, enhancement) ==
    IF enhancement = "" THEN prompt
    ELSE LET instructions_start == find(prompt, InstructionsHeader, 0)
         IN IF instructions_start # -1
            THEN LET instruction_6_end == find(prompt, Instruction6Anchor, 0)
                 IN IF instruction_6_end # -1
                    THEN insert_at(prompt, end_of_line(prompt, instruction_6_end),
                                   Instruction7Label \o enhancement \o "\n")
                    ELSE prompt
            ELSE prompt \o FallbackLabel \o enhancement

add_selected_theory_enhancement(prompt, form_data, selected_theory) ==
    LET theory == resolve_theory(form_data, selected_theory)
        table == theory_enhancements(form_data)
    IN IF theory \in DOMAIN table
       THEN <<apply_enhancement(prompt, table[theory]), theory>>
       ELSE <<prompt, theory>>

\* ------------------------------------------------------------------
\* analytics.py: the keyword tables of PromptAnalyzer
\* ------------------------------------------------------------------
BLOOMS_KEYWORDS ==
    <<"analyze", "evaluate", "create", "synthesize", "compare", "contrast",
      "critique", "assess", "judge", "design", "construct", "plan", "remember",
      "understand", "apply", "knowledge", "comprehension">>

UDL_KEYWORDS ==
    <<"multiple means", "representation", "engagement", "expression",
      "diverse learners", "accessibility", "flexible", "options",
      "accommodations", "modifications", "inclusive", "universal">>

TPACK_KEYWORDS ==
    <<"technology", "digital", "online", "interactive", "multimedia",
      "pedagogical", "content knowledge", "integration", "enhance", "facilitate",
      "support learning", "educational technology">>

PEDAGOGICAL_KEYWORDS ==
    <<"scaffolding", "differentiation", "formative assessment", "feedback",
      "inquiry", "collaboration", "problem-solving", "critical thinking",
      "metacognition", "reflection", "authentic", "real-world">>

\* the dict in its insertion order: <<key, patterns>>
AGE_PATTERNS ==
    <<
       <<"Early_Childhood",
         <<"preschool (ages 3-5)", "preschool", "ages 3-5", "early childhood",
           "kindergarten", "pre-k", "nursery", "toddlers", "3 year old",
           "4 year old", "5 year old", "pre-school", "daycare">>>>,
       <<"Primary",
         <<"primary students (ages 6-11)", "primary students", "ages 6-11",
           "elementary", "primary school", "elementary school", "grade 1",
           "grade 2", "grade 3", "grade 4", "grade 5", "grade 6", "first grade",
           "second grade", "third grade", "fourth grade", "fifth grade",
           "6 year old", "7 year old", "8 year old", "9 year old", "10 year old",
           "11 year old", "junior school", "primary education">>>>,
       <<"Lower_Secondary",
         <<"lower secondary (ages 12-14)", "lower secondary", "ages 12-14",
           "middle school", "junior high", "intermediate", "grade 7", "grade 8",
           "grade 9", "seventh grade", "eighth grade", "ninth grade",
           "12 year old", "13 year old", "14 year old", "secondary education",
           "junior secondary">>>>,
       <<"Upper_Secondary",
         <<"upper secondary (ages 15-18)", "upper secondary", "ages 15-18",
           "high school", "senior high", "secondary school", "grade 10",
           "grade 11", "grade 12", "tenth grade", "eleventh grade",
           "twelfth grade", "15 year old", "16 year old", "17 year old",
           "18 year old", "senior", "junior", "sophomore", "freshman",
           "college prep", "advanced placement", "ap students">>>>,
       <<"Adult",
         <<"adult learners", "university", "college", "higher education",
           "professional development", "adult education", "continuing education",
           "workplace learning", "corporate training", "graduate students",
           "undergraduate", "postgraduate", "mature students">>>>,
       <<"Mixed",
         <<"mixed-ability classroom", "mixed ability", "multi-age",
           "combined classes", "composite class", "mixed grades", "all ages",
           "various ages", "different age groups">>>>
    >>

\* the dict in its insertion order: <<key, patterns>>
METHODOLOGY_PATTERNS ==
    <<
       <<"Direct_Instruction",
         <<"teacher explains, ai provides examples and practice (direct instruction)",
           "teacher explains, ai provides examples and practice",
           "teacher demonstrates, ai offers step-by-step guidance (modeling & demonstration)",
           "teacher demonstrates, ai offers step-by-step guidance",
           "teacher presents, ai reinforces with interactive content (lecture-based with tech enhancement)",
           "teacher presents, ai reinforces with interactive content",
           "direct instruction", "explicit teaching", "teacher-led", "lecture",
           "presentation", "demonstration", "modeling", "guided instruction",
           "structured teaching", "traditional teaching", "didactic",
           "expository">>>>,
       <<"Inquiry_Based",
         <<"students explore with ai as research assistant (inquiry-based learning)",
           "students explore with ai as research assistant",
           "inquiry-based learning", "inquiry based", "discovery learning",
           "exploration", "investigation", "research-based", "questioning",
           "wonder", "find out", "explore", "student inquiry", "open inquiry",
           "guided inquiry">>>>,
       <<"Problem_Based",
         <<"students solve problems with ai hints and scaffolding (problem-based learning)",
           "students solve problems with ai hints and scaffolding",
           "problem-based learning", "problem based", "pbl",
           "real-world problems", "authentic problems", "case studies",
           "scenarios", "challenges", "problem solving", "solution-focused">>>>,
       <<"Project_Based",
         <<"students create projects with ai collaboration tools (project-based learning)",
           "students create projects with ai collaboration tools",
           "project-based learning", "project based", "pbl", "projects",
           "create", "build", "design", "portfolio", "exhibition", "showcase",
           "maker", "construction", "development">>>>,
       <<"Collaborative",
         <<"students work in groups with ai facilitation (collaborative learning)",
           "students work in groups with ai facilitation",
           "collaborative learning", "group work", "teamwork",
           "cooperative learning", "peer learning", "discussion", "team",
           "partner", "pairs", "social learning", "shared learning">>>>,
       <<"Differentiated",
         <<"ai provides different paths for different learners (differentiated instruction)",
           "ai provides different paths for different learners",
           "ai adjusts difficulty based on student progress (adaptive learning)",
           "ai adjusts difficulty based on student progress",
           "ai offers multiple ways to show understanding (multiple intelligences)",
           "ai offers multiple ways to show understanding",
           "differentiated instruction", "differentiation", "adaptive learning",
           "personalized learning", "individualized", "customized", "tailored",
           "multiple intelligences", "learning styles", "flexible grouping",
           "tiered assignments">>>>,
       <<"Assessment_Focused",
         <<"ai provides ongoing feedback during learning (formative assessment)",
           "ai provides ongoing feedback during learning",
           "ai helps students reflect on their progress (self-assessment & reflection)",
           "ai helps students reflect on their progress",
           "students assess each other with ai guidance (peer assessment)",
           "students assess each other with ai guidance", "formative assessment",
           "summative assessment", "evaluation", "feedback", "reflection",
           "self-assessment", "peer assessment", "rubrics", "criteria",
           "standards">>>>,
       <<"Scaffolding",
         <<"ai gives personalized support and encouragement (scaffolding)",
           "ai gives personalized support and encouragement", "scaffolding",
           "support", "guidance", "gradual release", "modeling", "coaching",
           "mentoring", "assistance", "prompting">>>>
    >>

\* the dict in its insertion order: <<category, keywords, topics>>
SUBJECT_PATTERNS ==
    <<
       <<"STEM",
         <<"math", "mathematics", "science", "physics", "chemistry", "biology",
           "technology", "engineering", "computer", "coding", "programming",
           "algebra", "geometry", "calculus", "statistics", "data science",
           "robotics", "artificial intelligence", "machine learning">>,
         <<"fractions", "decimals", "percentages", "equations", "functions",
           "trigonometry", "probability", "graphing", "measurement", "atoms",
           "molecules", "cells", "dna", "genetics", "evolution", "forces",
           "energy", "electricity", "magnetism", "waves", "chemical reactions",
           "periodic table", "photosynthesis", "solar system", "climate change",
           "ecosystems", "algorithms", "variables", "loops", "functions",
           "databases", "networks", "cybersecurity", "web development",
           "app development">>>>,
       <<"Humanities",
         <<"history", "social studies", "geography", "literature",
           "language arts", "english", "writing", "reading", "essay", "poetry",
           "novel", "culture", "society", "politics", "government", "economics",
           "philosophy", "psychology", "anthropology", "sociology">>,
         <<"world war", "civil war", "revolutionary war", "independence",
           "renaissance", "middle ages", "ancient civilizations",
           "industrial revolution", "great depression", "cold war",
           "colonialism", "democracy", "constitution", "bill of rights",
           "shakespeare", "poetry analysis", "character development", "theme",
           "symbolism", "narrative", "prose", "drama", "continents", "countries",
           "capitals", "climate zones", "cultural diversity", "immigration",
           "globalization">>>>,
       <<"Arts",
         <<"art", "music", "drama", "theater", "creative", "visual arts",
           "performing arts", "drawing", "painting", "sculpture", "dance",
           "singing", "acting", "design", "photography">>,
         <<"color theory", "composition", "perspective", "shading", "rhythm",
           "melody", "harmony", "tempo", "instruments", "improvisation",
           "character development", "stage design", "choreography",
           "vocal techniques", "art history">>>>,
       <<"PE_Health",
         <<"physical education", "health", "fitness", "sports", "exercise",
           "nutrition", "wellness", "safety", "first aid", "mental health", "pe",
           "gym", "athletics", "recreation">>,
         <<"cardiovascular", "strength training", "flexibility", "endurance",
           "team sports", "individual sports", "healthy eating", "food pyramid",
           "hygiene", "stress management", "drug prevention",
           "injury prevention">>>>,
       <<"Languages",
         <<"english", "language", "grammar", "nouns", "verbs", "adjectives",
           "linguistics", "syntax", "morphology", "vocabulary", "phonetics",
           "language instructor", "language teacher", "esl", "efl", "debate",
           "arguments", "discussion", "speaking", "conversation",
           "pronunciation", "listening", "reading", "writing", "comprehension",
           "french", "spanish", "german", "italian", "chinese">>,
         <<"english nouns", "parts of speech", "sentence structure",
           "word formation", "noun phrases", "proper nouns", "common nouns",
           "grammar rules", "debate topics", "language learning",
           "discussion topics", "conversation practice", "vocabulary building",
           "language skills", "second language", "foreign language",
           "linguistic analysis", "language structure", "semantic meaning">>>>,
       <<"Life_Skills",
         <<"life skills", "personal development", "social skills", "emotional",
           "communication", "leadership", "teamwork", "time management",
           "financial literacy", "cooking", "health education">>,
         <<"budgeting", "personal finance", "cooking skills", "nutrition",
           "social interaction", "conflict resolution", "decision making",
           "goal setting", "stress management", "self-care">>>>,
       <<"Vocational",
         <<"career", "technical education", "vocational", "trade",
           "professional skills", "workplace", "job skills", "business",
           "entrepreneurship", "marketing">>,
         <<"resume writing", "interview skills", "communication skills",
           "leadership", "teamwork", "project management", "financial literacy",
           "customer service">>>>
    >>

\* the dict in its insertion order: <<level, verbs, tasks, complexity>>
BLOOMS_COMPLEXITY_INDICATORS ==
    <<
       <<"Remember",
         <<"list", "name", "identify", "recall", "recognize", "define",
           "describe", "match", "select", "state", "label", "locate", "memorize",
           "repeat", "reproduce", "quote", "cite", "recite", "show", "spell",
           "tell", "relate", "find", "choose", "duplicate", "enumerate",
           "record", "underline", "point to">>,
         <<"vocabulary", "definitions", "facts", "basic information",
           "key terms", "simple recall", "memorization", "word list",
           "terminology", "flashcards", "drill exercises", "rote learning",
           "basic facts", "simple identification", "naming activity",
           "matching exercise">>,
         "Basic">>,
       <<"Understand",
         <<"explain", "describe", "discuss", "summarize", "paraphrase",
           "interpret", "translate", "outline", "give examples", "classify",
           "infer", "predict", "extend", "associate", "distinguish", "express",
           "locate", "report", "restate", "review", "recognize", "express",
           "identify", "indicate", "represent", "illustrate", "convert">>,
         <<"explanation", "summary", "main ideas", "concepts", "understanding",
           "interpretation", "comprehension", "overview", "description",
           "concept mapping", "graphic organizers", "reading comprehension",
           "paraphrasing exercise", "translation activity",
           "concept explanation">>,
         "Basic">>,
       <<"Apply",
         <<"apply", "demonstrate", "use", "show", "solve", "practice",
           "illustrate", "operate", "implement", "execute", "modify", "relate",
           "calculate", "complete", "examine", "classify", "choose", "dramatize",
           "employ", "interpret", "schedule", "sketch", "write", "prepare",
           "produce", "translate", "manipulate", "utilize">>,
         <<"practice exercises", "application", "problem solving",
           "demonstrations", "examples", "implementation",
           "practical application", "case studies", "worksheets", "homework",
           "lab work", "simulations", "role playing", "hands-on activities",
           "guided practice", "skill practice">>,
         "Intermediate">>,
       <<"Analyze",
         <<"analyze", "examine", "compare", "contrast", "investigate",
           "categorize", "differentiate", "distinguish", "question", "test",
           "organize", "deconstruct", "attribute", "break down", "correlate",
           "diagram", "divide", "order", "connect", "classify", "arrange",
           "separate", "advertise", "deduce", "dissect", "discriminate", "focus">>,
         <<"analysis", "comparison", "investigation", "examination",
           "critical thinking", "breakdown", "relationships", "case analysis",
           "research", "compare and contrast", "cause and effect",
           "critical analysis", "data analysis", "text analysis",
           "pattern recognition", "classification">>,
         "Advanced">>,
       <<"Evaluate",
         <<"evaluate", "assess", "judge", "critique", "appraise", "argue",
           "defend", "justify", "support", "rate", "prioritize", "recommend",
           "conclude", "discriminate", "decide", "grade", "measure", "rank",
           "score", "select", "validate", "verify", "choose", "estimate",
           "predict", "award", "compare", "criticize">>,
         <<"evaluation", "assessment", "criticism", "judgment", "argumentation",
           "justification", "critique", "peer review", "quality assessment",
           "rubrics", "peer assessment", "self-assessment", "portfolio review",
           "debate", "editorial", "survey", "recommendation report">>,
         "Advanced">>,
       <<"Create",
         <<"create", "design", "develop", "compose", "construct", "build",
           "plan", "produce", "invent", "formulate", "generate", "synthesize",
           "reorganize", "substitute", "combine", "compile", "devise",
           "role-play", "rewrite", "tell", "adapt", "change", "choose", "delete",
           "estimate", "happen", "imagine", "improve", "make up", "maximize",
           "minimize", "modify", "original", "predict", "propose", "solve",
           "suppose", "discuss", "facilitate", "format">>,
         <<"lesson plan", "curriculum", "project", "design", "creation",
           "development", "original work", "innovation", "presentation",
           "unit plan", "assessment design", "activity creation",
           "material development", "instructional design", "learning experience",
           "educational resource", "teaching strategy", "learning module",
           "course design", "program development">>,
         "Expert">>
    >>

\* ------------------------------------------------------------------
\* analytics.py: subject classification
\* ------------------------------------------------------------------
Max(S) == CHOOSE x \in S : \A y \in S : x >= y

\* WholePhraseHits without the padding: the pattern anywhere in the text
WholePhraseHits_unpadded(patterns, text) ==
    {i \in 1..Len(patterns) : Contains(text, patterns[i])}

\* the entries of a pattern list found in the padded text as whole phrases:
\* f' {pattern} ' in f' {text} '
WholePhraseHits(patterns, text) ==
    {i \in 1..Len(patterns) :
        Contains(" " \o text \o " ", " " \o patterns[i] \o " ")}

\* the role tier with literature teachers counted under Humanities
role_category_humanities(role_lower) ==
    IF Contains(role_lower, "art teacher") \/ Contains(role_lower, "art instructor")
    THEN "Arts"
    ELSE IF Contains(role_lower, "pe teacher")
              \/ Contains(role_lower, "physical education teacher")
    THEN "PE_Health"
    ELSE IF Contains(role_lower, "math teacher")
              \/ Contains(role_lower, "mathematics teacher")
    THEN "STEM"
    ELSE IF Contains(role_lower, "science teacher")
    THEN "STEM"
    ELSE IF Contains(role_lower, "language instructor")
              \/ Contains(role_lower, "language teacher")
              \/ Contains(role_lower, "english teacher")
    THEN "Languages"
    ELSE IF Contains(role_lower, "history teacher")
              \/ Contains(role_lower, "social studies teacher")
    THEN "Humanities"
    ELSE IF Contains(role_lower, "literature teacher")
    THEN "Humanities"
    ELSE ""

\* the role tier: the category of the first role phrase found, "" when the
\* cascade falls through
role_category(role_lower) ==
    IF Contains(role_lower, "art teacher") \/ Contains(role_lower, "art instructor")
    THEN "Arts"
    ELSE IF Contains(role_lower, "pe teacher")
              \/ Contains(role_lower, "physical education teacher")
    THEN "PE_Health"
    ELSE IF Contains(role_lower, "math teacher")
              \/ Contains(role_lower, "mathematics teacher")
    THEN "STEM"
    ELSE IF Contains(role_lower, "science teacher")
    THEN "STEM"
    ELSE IF Contains(role_lower, "language instructor")
              \/ Contains(role_lower, "language teacher")
              \/ Contains(role_lower, "english teacher")
    THEN "Languages"
    ELSE IF Contains(role_lower, "history teacher")
              \/ Contains(role_lower, "social studies teacher")
    THEN "Humanities"
    ELSE IF Contains(role_lower, "literature teacher")
    THEN "Languages"
    ELSE ""

\* scores[category] of the content-based fallback, in the order of the table
subject_scores(combined_text) ==
    [c \in 1..Len(SUBJECT_PATTERNS) |->
        2 * Cardinality(WholePhraseHits(SUBJECT_PATTERNS[c][2], combined_text))
        + 5 * Cardinality(WholePhraseHits(SUBJECT_PATTERNS[c][3], combined_text))]

RECURSIVE SumTo(_, _)
SumTo(scores, n) == IF n = 0 THEN 0 ELSE scores[n] + SumTo(scores, n - 1)

\* sum(scores.values())
SumValues(scores) == SumTo(scores, Len(scores))

\* max(scores.values())
MaxValue(scores) == Max({scores[i] : i \in 1..Len(scores)})

\* FirstMaxKey taking the last key of maximal value
FirstMaxKey_last(scores) == Max({i \in 1..Len(scores) : scores[i] = MaxValue(scores)})

\* the position of max(scores, key=scores.get): the first key of maximal value
FirstMaxKey(scores) == Min({i \in 1..Len(scores) : scores[i] = MaxValue(scores)})

\* enhanced_subject_classification looking at the highest score before the sum
enhanced_subject_classification_max_first(subject_text, task_text, generated_prompt, role_text) ==
    LET role_lower == lower(role_text)
        by_role == role_category(role_lower)
    IN IF by_role # "" THEN by_role
       ELSE LET combined_text ==
                    lower(subject_text \o " " \o task_text \o " " \o generated_prompt)
                scores == subject_scores(combined_text)
            IN IF MaxValue(scores) > 3
               THEN SUBJECT_PATTERNS[FirstMaxKey(scores)][1]
               ELSE IF SumValues(scores) > 25 THEN "Cross_Curricular"
               ELSE "Other"

enhanced_subject_classification(subject_text, task_text, generated_prompt, role_text) ==
    LET role_lower == lower(role_text)
        by_role == role_category(role_lower)
    IN IF by_role # "" THEN by_role
       ELSE LET combined_text ==
                    lower(subject_text \o " " \o task_text \o " " \o generated_prompt)
                scores == subject_scores(combined_text)
            IN IF SumValues(scores) > 25 THEN "Cross_Curricular"
               ELSE IF MaxValue(scores) > 3
               THEN SUBJECT_PATTERNS[FirstMaxKey(scores)][1]
               ELSE "Other"

\* ------------------------------------------------------------------
\* analytics.py: age-group and methodology classification
\* ------------------------------------------------------------------
\* the entries of a pattern list that occur in the text: pattern in text
Hits(patterns, text) == {i \in 1..Len(patterns) : Contains(text, patterns[i])}

environment_mappings ==
    << <<"traditional classroom", "Primary">>,
       <<"online/remote learning", "Upper_Secondary">>,
       <<"hybrid classroom", "Upper_Secondary">>,
       <<"homeschool setting", "Primary">>,
       <<"after-school program", "Primary">> >>

\* a variant that scores an exact match as any other match
enhanced_context_classification_flat(context_text, generated_prompt) ==
    LET combined_text == lower(context_text \o " " \o generated_prompt)
        context_lower == lower(context_text)
        pattern_score(patterns) ==
            LET found == Hits(patterns, combined_text)
                exact == {i \in found : patterns[i] = context_lower}
            IN 3 * Cardinality(exact) + 3 * Cardinality(found \ exact)
        environment_score(age_group) ==
            5 * Cardinality({e \in 1..Len(environment_mappings) :
                    /\ environment_mappings[e][2] = age_group
                    /\ Contains(combined_text, environment_mappings[e][1])})
        special_score(age_group) ==
            IF age_group = "Mixed"
               /\ AnyIn({"mixed-ability", "esl/efl", "learning difficulties"}, combined_text)
            THEN 5 ELSE 0
        scores == [g \in 1..Len(AGE_PATTERNS) |->
                      pattern_score(AGE_PATTERNS[g][2])
                      + environment_score(AGE_PATTERNS[g][1])
                      + special_score(AGE_PATTERNS[g][1])]
    IN IF MaxValue(scores) > 0 THEN AGE_PATTERNS[FirstMaxKey(scores)][1]
       ELSE "Primary"

enhanced_context_classification(context_text, generated_prompt) ==
    LET combined_text == lower(context_text \o " " \o generated_prompt)
        context_lower == lower(context_text)
        pattern_score(patterns) ==
            LET found == Hits(patterns, combined_text)
                exact == {i \in found : patterns[i] = context_lower}
            IN 10 * Cardinality(exact) + 3 * Cardinality(found \ exact)
        environment_score(age_group) ==
            5 * Cardinality({e \in 1..Len(environment_mappings) :
                    /\ environment_mappings[e][2] = age_group
                    /\ Contains(combined_text, environment_mappings[e][1])})
        special_score(age_group) ==
            IF age_group = "Mixed"
               /\ AnyIn({"mixed-ability", "esl/efl", "learning difficulties"}, combined_text)
            THEN 5 ELSE 0
        scores == [g \in 1..Len(AGE_PATTERNS) |->
                      pattern_score(AGE_PATTERNS[g][2])
                      + environment_score(AGE_PATTERNS[g][1])
                      + special_score(AGE_PATTERNS[g][1])]
    IN IF MaxValue(scores) > 0 THEN AGE_PATTERNS[FirstMaxKey(scores)][1]
       ELSE "Primary"

\* a variant that answers Other when no pattern scores
enhanced_methodology_classification_other(methodology_text, task_text, generated_prompt) ==
    LET combined_text ==
            lower(methodology_text \o " " \o task_text \o " " \o generated_prompt)
        methodology_lower == lower(methodology_text)
        dropdown_parts == split(methodology_lower)
        pattern_score(patterns) ==
            LET found == Hits(patterns, combined_text)
                exact == {i \in found : patterns[i] = methodology_lower}
                partial == {i \in found \ exact :
                               \E part \in dropdown_parts : Contains(patterns[i], part)}
            IN 15 * Cardinality(exact) + 10 * Cardinality(partial)
               + 3 * Cardinality((found \ exact) \ partial)
        scores == [m \in 1..Len(METHODOLOGY_PATTERNS) |->
                      pattern_score(METHODOLOGY_PATTERNS[m][2])]
    IN IF MaxValue(scores) > 0 THEN METHODOLOGY_PATTERNS[FirstMaxKey(scores)][1]
       ELSE "Other"

\* a variant that scores a partial match as a plain one
enhanced_methodology_classification_no_partial(methodology_text, task_text, generated_prompt) ==
    LET combined_text ==
            lower(methodology_text \o " " \o task_text \o " " \o generated_prompt)
        methodology_lower == lower(methodology_text)
        dropdown_parts == split(methodology_lower)
        pattern_score(patterns) ==
            LET found == Hits(patterns, combined_text)
                exact == {i \in found : patterns[i] = methodology_lower}
                partial == {i \in found \ exact :
                               \E part \in dropdown_parts : Contains(patterns[i], part)}
            IN 15 * Cardinality(exact) + 3 * Cardinality(partial)
               + 3 * Cardinality((found \ exact) \ partial)
        scores == [m \in 1..Len(METHODOLOGY_PATTERNS) |->
                      pattern_score(METHODOLOGY_PATTERNS[m][2])]
    IN IF MaxValue(scores) > 0 THEN METHODOLOGY_PATTERNS[FirstMaxKey(scores)][1]
       ELSE "Direct_Instruction"

\* a variant that scores an exact match as a plain one
enhanced_methodology_classification_no_exact(methodology_text, task_text, generated_prompt) ==
    LET combined_text ==
            lower(methodology_text \o " " \o task_text \o " " \o generated_prompt)
        methodology_lower == lower(methodology_text)
        dropdown_parts == split(methodology_lower)
        pattern_score(patterns) ==
            LET found == Hits(patterns, combined_text)
                exact == {i \in found : patterns[i] = methodology_lower}
                partial == {i \in found \ exact :
                               \E part \in dropdown_parts : Contains(patterns[i], part)}
            IN 3 * Cardinality(exact) + 10 * Cardinality(partial)
               + 3 * Cardinality((found \ exact) \ partial)
        scores == [m \in 1..Len(METHODOLOGY_PATTERNS) |->
                      pattern_score(METHODOLOGY_PATTERNS[m][2])]
    IN IF MaxValue(scores) > 0 THEN METHODOLOGY_PATTERNS[FirstMaxKey(scores)][1]
       ELSE "Direct_Instruction"

enhanced_methodology_classification(methodology_text, task_text, generated_prompt) ==
    LET combined_text ==
            lower(methodology_text \o " " \o task_text \o " " \o generated_prompt)
        methodology_lower == lower(methodology_text)
        dropdown_parts == split(methodology_lower)
        pattern_score(patterns) ==
            LET found == Hits(patterns, combined_text)
                exact == {i \in found : patterns[i] = methodology_lower}
                partial == {i \in found \ exact :
                               \E part \in dropdown_parts : Contains(patterns[i], part)}
            IN 15 * Cardinality(exact) + 10 * Cardinality(partial)
               + 3 * Cardinality((found \ exact) \ partial)
        scores == [m \in 1..Len(METHODOLOGY_PATTERNS) |->
                      pattern_score(METHODOLOGY_PATTERNS[m][2])]
    IN IF MaxValue(scores) > 0 THEN METHODOLOGY_PATTERNS[FirstMaxKey(scores)][1]
       ELSE "Direct_Instruction"

\* the legacy entry points the request handler calls
categorize_age_group(context_text) == enhanced_context_classification(context_text, "")

categorize_methodology(methodology_text) ==
    enhanced_methodology_classification(methodology_text, "", "")

\* ------------------------------------------------------------------
\* analytics.py: complexity assessment
\* ------------------------------------------------------------------
\* a variant with one group under another name
primary_verbs_renamed ==
    << <<"Expert", <<"create", "design", "develop", "build", "construct", "compose",
                     "generate", "produce">>>>,
       <<"Analysis", <<"analyze", "evaluate", "compare", "contrast", "assess",
                       "critique", "examine", "judge">>>>,
       <<"Intermediate", <<"apply", "demonstrate", "solve", "use", "implement",
                           "practice", "show">>>>,
       <<"Basic", <<"list", "name", "identify", "recall", "define", "describe",
                    "explain", "summarize">>>> >>

\* a variant that lists the groups from Basic up to Expert
primary_verbs_basic_first ==
    << <<"Basic", <<"list", "name", "identify", "recall", "define", "describe",
                    "explain", "summarize">>>>,
       <<"Intermediate", <<"apply", "demonstrate", "solve", "use", "implement",
                           "practice", "show">>>>,
       <<"Advanced", <<"analyze", "evaluate", "compare", "contrast", "assess",
                       "critique", "examine", "judge">>>>,
       <<"Expert", <<"create", "design", "develop", "build", "construct", "compose",
                     "generate", "produce">>>> >>

\* the dict in its insertion order: <<complexity, verbs>>
primary_verbs ==
    << <<"Expert", <<"create", "design", "develop", "build", "construct", "compose",
                     "generate", "produce">>>>,
       <<"Advanced", <<"analyze", "evaluate", "compare", "contrast", "assess",
                       "critique", "examine", "judge">>>>,
       <<"Intermediate", <<"apply", "demonstrate", "solve", "use", "implement",
                           "practice", "show">>>>,
       <<"Basic", <<"list", "name", "identify", "recall", "define", "describe",
                    "explain", "summarize">>>> >>

\* the keys of complexity_votes in their insertion order
ComplexityLevels == <<"Basic", "Intermediate", "Advanced", "Expert">>

\* the groups of primary_verbs with a verb at the start of the task or in it
\* as a whole word
primary_verb_groups(task_start) ==
    {g \in 1..Len(primary_verbs) :
        \E v \in 1..Len(primary_verbs[g][2]) :
            LET verb == primary_verbs[g][2][v]
            IN \/ startswith(task_start, verb)
               \/ Contains(" " \o task_start \o " ", " " \o verb \o " ")}

\* a variant with the two weights exchanged
bloom_score_swapped(indicators, combined_text) ==
    LET verbs == indicators[2]
        tasks == indicators[3]
        verb_hits == {v \in 1..Len(verbs) :
                        \/ Contains(" " \o combined_text \o " ", " " \o verbs[v] \o " ")
                        \/ startswith(combined_text, verbs[v] \o " ")
                        \/ endswith(combined_text, " " \o verbs[v])}
        task_hits == {t \in 1..Len(tasks) :
                        Len(tasks[t]) >= 4 /\ Contains(combined_text, tasks[t])}
    IN 2 * Cardinality(verb_hits) + 3 * Cardinality(task_hits)

\* bloom_scores[level] for one entry of BLOOMS_COMPLEXITY_INDICATORS
bloom_score(indicators, combined_text) ==
    LET verbs == indicators[2]
        tasks == indicators[3]
        verb_hits == {v \in 1..Len(verbs) :
                        \/ Contains(" " \o combined_text \o " ", " " \o verbs[v] \o " ")
                        \/ startswith(combined_text, verbs[v] \o " ")
                        \/ endswith(combined_text, " " \o verbs[v])}
        task_hits == {t \in 1..Len(tasks) :
                        Len(tasks[t]) >= 4 /\ Contains(combined_text, tasks[t])}
    IN 3 * Cardinality(verb_hits) + 2 * Cardinality(task_hits)

\* complexity_votes after the loop over the Bloom levels, in the order of
\* ComplexityLevels
complexity_votes(combined_text) ==
    [c \in 1..Len(ComplexityLevels) |->
        SumValues([b \in 1..Len(BLOOMS_COMPLEXITY_INDICATORS) |->
            IF BLOOMS_COMPLEXITY_INDICATORS[b][4] = ComplexityLevels[c]
            THEN bloom_score(BLOOMS_COMPLEXITY_INDICATORS[b], combined_text)
            ELSE 0])]

\* a variant that tests the warm-up phrase before the Expert phrases
assess_complexity_warm_up_first(prompt_text, task_text, methodology_text) ==
    LET combined_text ==
            lower(task_text \o " " \o methodology_text \o " " \o prompt_text)
        task_start == SliceTo(lower(task_text), 30)
        primary == primary_verb_groups(task_start)
    IN IF primary # {} THEN primary_verbs[Min(primary)][1]
       ELSE IF /\ Contains(combined_text, "warm-up activity")
               /\ ~AnyIn({"complex", "advanced", "create"}, combined_text)
       THEN "Basic"
       ELSE IF \/ Contains(combined_text, "complete lesson plan")
               \/ Contains(combined_text, "lesson plan with objectives")
               \/ Contains(combined_text, "unit plan")
       THEN "Expert"
       ELSE IF \/ Contains(combined_text, "assessment rubric")
               \/ Contains(combined_text, "create rubric")
               \/ Contains(combined_text, "design rubric")
       THEN "Expert"
       ELSE IF Contains(combined_text, "vocabulary") /\ Contains(combined_text, "list")
       THEN "Basic"
       ELSE LET votes == complexity_votes(combined_text)
            IN IF MaxValue(votes) >= 3 THEN ComplexityLevels[FirstMaxKey(votes)]
               ELSE "Intermediate"

assess_complexity(prompt_text, task_text, methodology_text) ==
    LET combined_text ==
            lower(task_text \o " " \o methodology_text \o " " \o prompt_text)
        task_start == SliceTo(lower(task_text), 30)
        primary == primary_verb_groups(task_start)
    IN IF primary # {} THEN primary_verbs[Min(primary)][1]
       ELSE IF \/ Contains(combined_text, "complete lesson plan")
               \/ Contains(combined_text, "lesson plan with objectives")
               \/ Contains(combined_text, "unit plan")
       THEN "Expert"
       ELSE IF \/ Contains(combined_text, "assessment rubric")
               \/ Contains(combined_text, "create rubric")
               \/ Contains(combined_text, "design rubric")
       THEN "Expert"
       ELSE IF /\ Contains(combined_text, "warm-up activity")
               /\ ~AnyIn({"complex", "advanced", "create"}, combined_text)
       THEN "Basic"
       ELSE IF Contains(combined_text, "vocabulary") /\ Contains(combined_text, "list")
       THEN "Basic"
       ELSE LET votes == complexity_votes(combined_text)
            IN IF MaxValue(votes) >= 3 THEN ComplexityLevels[FirstMaxKey(votes)]
               ELSE "Intermediate"

\* complexity_votes when assess_complexity returns: none when it returns from
\* the loop over primary_verbs
NoVotes == <<>>

complexity_votes_at_return(prompt_text, task_text, methodology_text) ==
    IF primary_verb_groups(SliceTo(lower(task_text), 30)) # {} THEN NoVotes
    ELSE complexity_votes(lower(task_text \o " " \o methodology_text \o " "
                                \o prompt_text))

\* ------------------------------------------------------------------
\* analytics.py: content analysis
\* ------------------------------------------------------------------
\* len(re.findall(r'[.!?]+', text)): the runs of sentence terminators
sentence_runs(text) ==
    {i \in 1..Len(text) :
        /\ SubSeq(text, i, i) \in {".", "!", "?"}
        /\ (i = 1 \/ SubSeq(text, i - 1, i - 1) \notin {".", "!", "?"})}

specific_terms ==
    <<"students will", "learning objective", "step by step", "for example",
      "specifically", "in particular">>

action_verbs ==
    <<"create", "design", "develop", "implement", "analyze", "evaluate", "compare",
      "explain", "demonstrate">>

\* the empty dict
EmptyDict == <<>>

\* analyze_content; reading_ease is what textstat's flesch_reading_ease does
\* for the text: <<n>> when it returns the whole number n, <<>> when it raises;
\* prompt_complexity_score is kept in tenths
analyze_content(prompt_text, reading_ease) ==
    IF prompt_text = "" THEN EmptyDict
    ELSE LET text_lower == lower(prompt_text)
             complexity_score ==
                 IF reading_ease = <<>> THEN 50
                 ELSE Max({0, Min({100, 100 - reading_ease[1]})})
         IN [prompt_word_count |-> Cardinality(WordStarts(prompt_text)),
             prompt_sentence_count |-> Cardinality(sentence_runs(prompt_text)),
             prompt_complexity_score |-> complexity_score,
             blooms_keywords_count |-> Cardinality(Hits(BLOOMS_KEYWORDS, text_lower)),
             udl_keywords_count |-> Cardinality(Hits(UDL_KEYWORDS, text_lower)),
             tpack_keywords_count |-> Cardinality(Hits(TPACK_KEYWORDS, text_lower)),
             pedagogical_keywords_count |->
                 Cardinality(Hits(PEDAGOGICAL_KEYWORDS, text_lower)),
             specificity_score |->
                 Min({10, 2 * Cardinality(Hits(specific_terms, text_lower))}),
             actionability_score |->
                 Min({10, Cardinality(Hits(action_verbs, text_lower))})]

\* ------------------------------------------------------------------
\* Inputs
\* ------------------------------------------------------------------
\* the texts of at most n words of the vocabulary V, joined by single spaces
RECURSIVE Texts(_, _)
Texts(V, n) ==
    IF n = 0 THEN {""}
    ELSE LET T == Texts(V, n - 1)
         IN T \cup {IF t = "" THEN w ELSE t \o " " \o w : t \in T, w \in V}

EncodeAll(T) == {Encode(t) : t \in T}

RECURSIVE Repeat(_, _)
Repeat(text, n) == IF n = 0 THEN "" ELSE text \o Repeat(text, n - 1)

FiveInstructions == "1. α\n2. β\n3. γ\n4. δ\n5. ε\n"

\* A prompt as the form builds it: pre lines, optionally the Instructions
\* header with instructions 1-5, optionally the line of instruction 6 (the
\* anchor, closed by a full stop), optionally a newline after it, tail lines.
PromptOf(pre, hdr, anc, nl, tail) ==
    Repeat("Ρόλος: Δάσκαλος\n", pre)
    \o (IF hdr THEN InstructionsHeader \o "\n" \o FiveInstructions ELSE "")
    \o (IF anc THEN Instruction6Anchor \o "." ELSE "")
    \o (IF anc /\ nl THEN "\n" ELSE "")
    \o Repeat("Απάντησε στα ελληνικά.\n", tail)

Prompts ==
    {PromptOf(pre, hdr, anc, nl, tail) :
        pre \in 0..1, hdr \in BOOLEAN, anc \in BOOLEAN,
        nl \in BOOLEAN, tail \in 0..MaxTailLines}
    \ {PromptOf(pre, hdr, TRUE, FALSE, tail) :
        pre \in 0..1, hdr \in BOOLEAN, tail \in 1..(MaxTailLines + 1)}

Theories ==
    {"blooms", "udl", "tpack", "constructivist", "social_learning",
     "scaffolding", "differentiation"}

\* what the request field theory_enhancement may carry: a theory, nothing,
\* or any other string
TheoryInputs == Theories \cup {"", "maslow"}

\* the form fields, each text as its codes
FormFields == {"role", "task", "context", "methodology", "subject", "tone"}

DecodeForm(form) == [f \in FormFields |-> Decode(form[f])]

EnhFormData ==
    [role : {Encode("")},
     task : EncodeAll(Texts({"Πολλαπλές νοημοσύνες"}, MaxWords)),
     context : EncodeAll({"", "Ειδικές ανάγκες"}),
     methodology : EncodeAll(Texts({"AI"}, MaxWords)),
     subject : {Encode("")},
     tone : {Encode("")}]

NoReturn == <<>>

\* the request variables before any request has arrived
NoCall == <<>>
NoRequest == <<>>
NoPayload == <<>>
NoReply == [outcome |-> "none"]
NoResponse == <<>>
Unassigned == "<unassigned>"

NoRequestYet ==
    /\ req = NoRequest
    /\ payload = NoPayload
    /\ applied_theory = Unassigned
    /\ reply = NoReply
    /\ text_response = Unassigned
    /\ response = NoResponse
    /\ sessions = {}
    /\ usage = <<>>
    /\ records = <<>>

\* ------------------------------------------------------------------
\* SpecEnhance: add_selected_theory_enhancement on every input
\* ------------------------------------------------------------------
EnhInit ==
    /\ pc = "call"
    /\ call \in [fn : {"add_selected_theory_enhancement"},
                 prompt : EncodeAll(Prompts),
                 form_data : EnhFormData, selected_theory : TheoryInputs]
    /\ ret = NoReturn
    /\ NoRequestYet

Enhance ==
    /\ pc = "call"
    /\ call.fn = "add_selected_theory_enhancement"
    /\ LET r == add_selected_theory_enhancement(Decode(call.prompt),
                    DecodeForm(call.form_data), call.selected_theory)
       IN ret' = <<Encode(r[1]), r[2]>>
    /\ pc' = "done"
    /\ UNCHANGED <<call, request_vars>>

EnhNext == Enhance

SpecEnhance == EnhInit /\ [][EnhNext]_vars

EnhDone == pc = "done" /\ call.fn = "add_selected_theory_enhancement"

\* the prompt passed in, the prompt returned and the theory reported as used
InPrompt == Decode(call.prompt)
OutPrompt == Decode(ret[1])
TheoryUsed == ret[2]

\* the sentence generated for the theory the call reports as used
UsedSentence == theory_enhancements(DecodeForm(call.form_data))[TheoryUsed]

\* text.split("\n")
RECURSIVE SplitLines(_)
SplitLines(text) ==
    LET k == find(text, "\n", 0)
    IN IF k = -1 THEN <<text>>
       ELSE <<SliceTo(text, k)>> \o SplitLines(SliceFrom(text, k + 1))

IsNumbered(line) ==
    /\ Len(line) >= 3
    /\ SubSeq(line, 1, 1) \in {"1", "2", "3", "4", "5", "6", "7", "8", "9"}
    /\ SubSeq(line, 2, 3) = ". "

NumberedLines(text) == SelectSeq(SplitLines(text), IsNumbered)

FollowsTemplate(prompt) ==
    /\ Contains(prompt, InstructionsHeader)
    /\ Contains(prompt, Instruction6Anchor)
    /\ Len(NumberedLines(prompt)) = 6

\* C1: a prompt without the instruction-6 anchor comes back as the input
\* followed by one appended "Educational Enhancement:" paragraph carrying the
\* generated sentence, for every form-field record and theory (or none).
C1_FallbackAppends ==
    (EnhDone /\ ~Contains(InPrompt, Instruction6Anchor)
        /\ call.selected_theory \in Theories \cup {""})
    => OutPrompt = InPrompt \o FallbackLabel \o UsedSentence

\* C2: a prompt that follows the template comes back with exactly seven
\* numbered instructions: the six of the input, unchanged and in order,
\* then one numbered 7 that begins with the IMPORTANT label.
C2_SevenInstructions ==
    (EnhDone /\ FollowsTemplate(InPrompt)
        /\ call.selected_theory \in Theories \cup {""})
    => LET N == NumberedLines(OutPrompt)
       IN /\ Len(N) = 7
          /\ SubSeq(N, 1, 6) = NumberedLines(InPrompt)
          /\ startswith(N[7], Instruction7Label)

\* the index of the first line of the text that contains the anchor
AnchorLine(text) ==
    LET L == SplitLines(text)
    IN Min({i \in 1..Len(L) : Contains(L[i], Instruction6Anchor)})

\* C3: when the anchor is found, the instruction-7 line is inserted right
\* after the line containing the anchor: the lines up to that line precede
\* it and the lines after that line follow it.
C3_InsertedAfterAnchorLine ==
    (EnhDone /\ Contains(InPrompt, Instruction6Anchor)
        /\ call.selected_theory \in Theories \cup {""})
    => LET L == SplitLines(InPrompt)
           k == AnchorLine(InPrompt)
       IN SplitLines(OutPrompt) =
            SubSeq(L, 1, k) \o <<Instruction7Label \o UsedSentence>>
            \o SubSeq(L, k + 1, Len(L))

\* the output is the input with one block put in at offset i
InsertedAt(input, output, i) ==
    /\ Len(output) >= Len(input)
    /\ SubSeq(output, 1, i) = SubSeq(input, 1, i)
    /\ SubSeq(output, i + 1 + Len(output) - Len(input), Len(output))
         = SubSeq(input, i + 1, Len(input))

\* C4: the returned prompt is the input itself or the input with exactly one
\* contiguous block inserted or appended; removing the block gives back the
\* input character for character.
C4_InputPreserved ==
    EnhDone => LET input == InPrompt
                   output == OutPrompt
               IN \E i \in 0..Len(input) : InsertedAt(input, output, i)

C4_Witness ==
    /\ EnhDone
    /\ LET input == InPrompt
           output == OutPrompt
       IN /\ output # input
          /\ \E i \in 1..(Len(input) - 1) : InsertedAt(input, output, i)
          /\ ~InsertedAt(input, output, 0)
          /\ ~InsertedAt(input, output, Len(input))

\* C5: with no theory supplied the theory reported as used is non-empty and
\* is the one suggest_optimal_theory gives for the same fields; a supplied
\* theory is reported back as it was supplied.
C5_TheoryConsistency ==
    EnhDone =>
        IF call.selected_theory = ""
        THEN /\ TheoryUsed # ""
             /\ TheoryUsed = suggest_optimal_theory(Decode(call.form_data.methodology),
                                                    Decode(call.form_data.task),
                                                    Decode(call.form_data.context))
        ELSE TheoryUsed = call.selected_theory

C5_Witness ==
    /\ EnhDone
    /\ call.selected_theory = ""
    /\ TheoryUsed = "differentiation"

\* C6: the theory reported as used is one of the seven theories and the
\* returned prompt contains the sentence generated for it.
C6_ReportedTheoryApplied ==
    EnhDone => /\ TheoryUsed \in Theories
               /\ Contains(OutPrompt, UsedSentence)

\* ------------------------------------------------------------------
\* SpecSuggest: suggest_optimal_theory on every input
\* ------------------------------------------------------------------
MethodologyKeywords ==
    {"διερευνητική", "εξερεύνηση", "ανακάλυψη", "πρόβλημα",
     "συνεργατική", "ομάδα", "ομαδική", "συνεργασία",
     "τεχνολογία", "ψηφιακή", "ai",
     "διαφοροποιημένη", "προσαρμοστική", "εξατομικευμένη",
     "υποστήριξη", "καθοδήγηση", "scaffolding"}

TaskKeywords ==
    {"κριτική σκέψη", "ερωτήσεις", "ανάλυση",
     "αξιολόγηση", "κουίζ", "ρουμπρίκα",
     "σχέδιο μαθήματος", "πλάνο μαθήματος", "αναλυτικό πρόγραμμα",
     "διαφοροποιημένη", "πολλαπλές νοημοσύνες"}

SuggestMethodologies ==
    MethodologyKeywords
    \cup Texts({"Διερευνητική", "ομάδα", "AI", "προσαρμοστική", "Scaffolding"},
             MaxWords)

SuggestTasks ==
    TaskKeywords
    \cup Texts({"Κριτική σκέψη", "κουίζ", "πολλαπλές νοημοσύνες"}, MaxWords)

SuggestContexts ==
    {"", "μικτό επίπεδο", "Ειδικές Ανάγκες"}

SugInit ==
    /\ pc = "call"
    /\ call \in [fn : {"suggest_optimal_theory"},
                 methodology : EncodeAll(SuggestMethodologies),
                 task : EncodeAll(SuggestTasks),
                 context : EncodeAll(SuggestContexts)]
    /\ ret = NoReturn
    /\ NoRequestYet

Suggest ==
    /\ pc = "call"
    /\ call.fn = "suggest_optimal_theory"
    /\ ret' = suggest_optimal_theory(Decode(call.methodology), Decode(call.task),
                                     Decode(call.context))
    /\ pc' = "done"
    /\ UNCHANGED <<call, request_vars>>

SugNext == Suggest

SpecSuggest == SugInit /\ [][SugNext]_vars

SugDone == pc = "done" /\ call.fn = "suggest_optimal_theory"

\* the groups of the cascade in their order: field, keywords, theory
SuggestGroups ==
    << <<"methodology", {"διερευνητική", "εξερεύνηση", "ανακάλυψη", "πρόβλημα"},
         "constructivist">>,
       <<"methodology", {"συνεργατική", "ομάδα", "ομαδική", "συνεργασία"},
         "social_learning">>,
       <<"methodology", {"τεχνολογία", "ψηφιακή", "ai"}, "tpack">>,
       <<"methodology", {"διαφοροποιημένη", "προσαρμοστική", "εξατομικευμένη"}, "udl">>,
       <<"methodology", {"υποστήριξη", "καθοδήγηση", "scaffolding"}, "scaffolding">>,
       <<"task", {"κριτική σκέψη", "ερωτήσεις", "ανάλυση"}, "blooms">>,
       <<"task", {"αξιολόγηση", "κουίζ", "ρουμπρίκα"}, "blooms">>,
       <<"task", {"σχέδιο μαθήματος", "πλάνο μαθήματος", "αναλυτικό πρόγραμμα"}, "blooms">>,
       <<"task", {"διαφοροποιημένη", "πολλαπλές νοημοσύνες"}, "differentiation">>,
       <<"context", {"μικτό επίπεδο", "ειδικές ανάγκες", "μαθησιακές δυσκολίες"}, "udl">> >>

\* the groups one of whose keywords occurs in the lowercased field of the call
MatchingGroups ==
    {g \in 1..Len(SuggestGroups) :
        AnyIn(SuggestGroups[g][2], lower(Decode(call[SuggestGroups[g][1]])))}

\* C7: the suggestion is the theory of the first group, in the fixed order
\* methodology groups, task groups, context group, one of whose keywords
\* occurs in its lowercased field, whatever later groups match too; it is
\* blooms when no group matches.
C7_FirstMatchWins ==
    SugDone =>
        ret = IF MatchingGroups = {} THEN "blooms"
              ELSE SuggestGroups[Min(MatchingGroups)][3]

C7_Witness ==
    /\ SugDone
    /\ Cardinality(MatchingGroups) >= 3
    /\ ret = "tpack"

\* ------------------------------------------------------------------
\* SpecSubject: enhanced_subject_classification on every input
\* ------------------------------------------------------------------
RolePhrases ==
    {"art teacher", "art instructor", "pe teacher", "physical education teacher",
     "math teacher", "mathematics teacher", "science teacher",
     "language instructor", "language teacher", "english teacher",
     "history teacher", "social studies teacher", "literature teacher"}

SubjectRoles ==
    RolePhrases
    \cup Texts({"Art Teacher", "PE teacher", "science teacher", "Language Teacher",
                "history teacher", "literature teacher", "head teacher"}, MaxWords)

SubjectTexts == {"", "chemistry and biology"}
SubjectTasks == {"", "poetry essay on the civil war"}
SubjectGenerated ==
    {"", "music and dance , fitness and nutrition , grammar and syntax , algebra , history , career"}

SubjInit ==
    /\ pc = "call"
    /\ call \in [fn : {"enhanced_subject_classification"},
                 subject_text : EncodeAll(SubjectTexts),
                 task_text : EncodeAll(SubjectTasks),
                 generated_prompt : EncodeAll(SubjectGenerated),
                 role_text : EncodeAll(SubjectRoles)]
    /\ ret = NoReturn
    /\ NoRequestYet

ClassifySubject ==
    /\ pc = "call"
    /\ call.fn = "enhanced_subject_classification"
    /\ ret' = enhanced_subject_classification(Decode(call.subject_text),
                  Decode(call.task_text), Decode(call.generated_prompt),
                  Decode(call.role_text))
    /\ pc' = "done"
    /\ UNCHANGED <<call, request_vars>>

SubjNext == ClassifySubject

SpecSubject == SubjInit /\ [][SubjNext]_vars

SubjDone == pc = "done" /\ call.fn = "enhanced_subject_classification"

\* the groups of role phrases in the order the claim lists them
ListedRoleGroups ==
    << <<{"art teacher", "art instructor"}, "Arts">>,
       <<{"pe teacher", "physical education teacher"}, "PE_Health">>,
       <<{"math teacher", "mathematics teacher", "science teacher"}, "STEM">>,
       <<{"language instructor", "language teacher", "english teacher",
          "literature teacher"}, "Languages">>,
       <<{"history teacher", "social studies teacher"}, "Humanities">> >>

\* the same phrases with "literature teacher" as a last group of its own
TestedRoleGroups ==
    << <<{"art teacher", "art instructor"}, "Arts">>,
       <<{"pe teacher", "physical education teacher"}, "PE_Health">>,
       <<{"math teacher", "mathematics teacher", "science teacher"}, "STEM">>,
       <<{"language instructor", "language teacher", "english teacher"}, "Languages">>,
       <<{"history teacher", "social studies teacher"}, "Humanities">>,
       <<{"literature teacher"}, "Languages">> >>

\* the groups one of whose phrases occurs in the lowercased role of the call
MatchingRoleGroups(groups) ==
    {g \in 1..Len(groups) : AnyIn(groups[g][1], lower(Decode(call.role_text)))}

\* C10 as stated: a role containing a role phrase gets the category of the
\* first matching group in the listed order (Arts, PE_Health, STEM, Languages
\* with literature teacher, Humanities), whatever the subject, the task and
\* the generated text are.
C10_RolePriorityAsListed ==
    (SubjDone /\ MatchingRoleGroups(ListedRoleGroups) # {})
    => ret = ListedRoleGroups[Min(MatchingRoleGroups(ListedRoleGroups))][2]

\* C10 amended: a role containing a role phrase gets the category of the
\* first matching group in the order Arts, PE_Health, STEM, Languages
\* (language instructor, language teacher, english teacher), Humanities and
\* only then literature teacher (Languages), whatever the subject, the task
\* and the generated text are.
C10_RolePriority ==
    (SubjDone /\ MatchingRoleGroups(TestedRoleGroups) # {})
    => ret = TestedRoleGroups[Min(MatchingRoleGroups(TestedRoleGroups))][2]

\* a literature teacher of chemistry and biology is classified by the role
C10_Witness ==
    /\ SubjDone
    /\ MatchingRoleGroups(TestedRoleGroups) = {6}
    /\ Decode(call.subject_text) = "chemistry and biology"
    /\ ret = "Languages"

\* ------------------------------------------------------------------
\* views.py: generate_prompt, the request pipeline
\* ------------------------------------------------------------------
\* Python's None
None == "None"

\* data.get(key, default)
Get(data, key, default) == IF key \in DOMAIN data THEN data[key] ELSE default

\* the instructions put in front of a prompt-improvement request (the three
\* backquotes of the source are spelled as three apostrophes)
ImprovementPreamble ==
    "You are a prompt engineering expert. Respond with ONLY valid JSON in this exact format:\n"
    \o "{\"prompt_improvements\": \"Your 3 numbered suggestions here...\"}\n\n"
    \o "Please provide exactly 3 specific improvements the user could add to their prompt to make it more effective.\n\n"
    \o "Focus on the most impactful improvements like: duration/timing, output format, specificity, differentiation, assessment criteria, etc.\n\n"
    \o "Do not include '''json, markdown, or any other formatting. Just pure JSON.\n\n"

\* the instructions put in front of a theory-explanation request
TheoryPreamble ==
    "You are an educational psychology expert. Respond with ONLY valid JSON in this exact format:\n"
    \o "{\"theory_explanation\": \"Your explanation here\", \"teaching_tip\": \"Your tip here\"}\n\n"
    \o "Do not include '''json, markdown, or any other formatting. Just pure JSON.\n\n"

is_theory_request(prompt) == Contains(lower(prompt), "educational theory expert")

is_improvement_request(prompt) == Contains(lower(prompt), "prompt engineering expert")

is_special_request(prompt) == is_theory_request(prompt) \/ is_improvement_request(prompt)

\* the model the request is sent to
model_of(prompt) ==
    IF is_improvement_request(prompt) THEN "gemini-2.0-flash" ELSE "gemini-2.5-flash"

form_data_of(data) == [f \in FormFields |-> Get(data, f, "")]

\* the prompt sent to the model and the theory applied to it, if any
prepare_prompt(data) ==
    LET prompt == Get(data, "prompt", "default prompt")
        enhancement_type == Get(data, "enhancement", "enhanced")
        selected_theory == Get(data, "theory_enhancement", "")
    IN IF is_special_request(prompt)
       THEN IF is_improvement_request(prompt)
            THEN <<ImprovementPreamble \o prompt, Unassigned>>
            ELSE <<TheoryPreamble \o prompt, Unassigned>>
       ELSE IF enhancement_type = "enhanced"
            THEN add_selected_theory_enhancement(prompt, form_data_of(data),
                                                 selected_theory)
            ELSE <<prompt, Unassigned>>

max_output_tokens(prompt, is_improvement) ==
    IF Len(prompt) > 3000 \/ is_improvement THEN 8192 ELSE 4096

\* json.dumps of a text: ASCII texts only, as the replies of the model are
RECURSIVE json_escape(_, _, _)
json_escape(text, lo, hi) ==
    IF lo > hi THEN ""
    ELSE IF lo = hi
    THEN LET c == SubSeq(text, lo, lo)
         IN IF c = "\"" THEN "\\\""
            ELSE IF c = "\\" THEN "\\\\"
            ELSE IF c = "\n" THEN "\\n"
            ELSE c
    ELSE LET mid == (lo + hi) \div 2
         IN json_escape(text, lo, mid) \o json_escape(text, mid + 1, hi)

json_string(text) == "\"" \o json_escape(text, 1, Len(text)) \o "\""

\* json.dumps of a dict of texts, given as its <<key, value>> pairs in order
RECURSIVE json_members(_, _)
json_members(pairs, n) ==
    IF n = 0 THEN ""
    ELSE (IF n = 1 THEN "" ELSE json_members(pairs, n - 1) \o ", ")
         \o json_string(pairs[n][1]) \o ": " \o json_string(pairs[n][2])

json_dumps(pairs) == "{" \o json_members(pairs, Len(pairs)) \o "}"

\* whether json.loads(text) returns: of the texts a reply carries in this
\* model, the ones that are a JSON document are the ones enclosed in braces
json_loads_succeeds(text) == startswith(text, "{") /\ endswith(text, "}")

TeachingTip ==
    "Remember to adapt this approach based on your students' individual needs."

NoPromptGenerated == "Sorry, no prompt was generated. Please try again."

UnexpectedError == "Sorry, an unexpected error occurred."

\* text_response as lines 367-396 leave it, for the body of a 200 response
parse_response(body, prompt) ==
    IF body.kind = "candidates"
    THEN IF is_special_request(prompt) /\ ~json_loads_succeeds(body.text)
         THEN IF is_improvement_request(prompt)
              THEN json_dumps(<< <<"prompt_improvements", body.text>> >>)
              ELSE json_dumps(<< <<"theory_explanation", body.text>>,
                                 <<"teaching_tip", TeachingTip>> >>)
         ELSE body.text
    ELSE IF body.kind \in {"no_candidates", "empty_candidates"}
    THEN NoPromptGenerated
    ELSE UnexpectedError

\* a variant that reports the applied theory in every mode
theory_bookkeeping_every_mode(data, applied) ==
    <<applied, Get(data, "theory_enhancement", "") = "">>

\* final_applied_theory and theory_was_auto_suggested, lines 427-433
theory_bookkeeping(data, applied) ==
    LET prompt == Get(data, "prompt", "default prompt")
    IN IF Get(data, "enhancement", "enhanced") = "enhanced"
          /\ ~is_special_request(prompt)
       THEN <<applied, Get(data, "theory_enhancement", "") = "">>
       ELSE <<None, FALSE>>

\* the row PromptGeneration.objects.create writes, texts as the state keeps
\* them; timestamps and response times are left out
generation_record(data, session_id, text, applied, content_analysis) ==
    LET bookkeeping == theory_bookkeeping(data, applied)
    IN [session |-> session_id,
        template_used |-> Get(data, "template", ""),
        role |-> Encode(Get(data, "role", "")),
        subject |-> Encode(Get(data, "subject", "")),
        task |-> Encode(Get(data, "task", "")),
        context |-> Encode(Get(data, "context", "")),
        methodology |-> Encode(Get(data, "methodology", "")),
        tone |-> Encode(Get(data, "tone", "")),
        enhancement_mode |-> Get(data, "enhancement", "enhanced"),
        success |-> TRUE,
        generated_prompt |-> Encode(text),
        subject_category |->
            enhanced_subject_classification(Get(data, "subject", ""),
                Get(data, "task", ""), Get(data, "role", ""), text),
        age_group_category |-> categorize_age_group(Get(data, "context", "")),
        methodology_category |->
            categorize_methodology(Get(data, "methodology", "")),
        complexity_level |->
            assess_complexity(text, Get(data, "task", ""),
                              Get(data, "methodology", "")),
        selected_theory |-> bookkeeping[1],
        theory_auto_suggested |-> bookkeeping[2],
        content_analysis |-> content_analysis]

\* ------------------------------------------------------------------
\* Spec: one generation request through generate_prompt
\* ------------------------------------------------------------------
\* a prompt longer than the large-prompt threshold
RECURSIVE Doubled(_, _)
Doubled(text, n) == IF n = 0 THEN text ELSE Doubled(text \o text, n - 1)

LongPrompt == Doubled("Write a quiz about fractions for my class. ", 7)

RequestPrompts ==
    {PromptOf(0, TRUE, TRUE, TRUE, 0),
     PromptOf(0, TRUE, FALSE, FALSE, 0),
     "Write a quiz about fractions.",
     "You are an Educational Theory Expert. Explain scaffolding.",
     "You are a Prompt Engineering Expert. Improve: quiz about fractions"}

\* the form as the page posts it
RequestForms ==
    {[role |-> "", subject |-> "", task |-> "", context |-> "",
      methodology |-> "", tone |-> ""],
     [role |-> "Art Teacher", subject |-> "chemistry and biology",
      task |-> "Create a complete lesson plan",
      context |-> "High School (14-18 years)",
      methodology |-> "Project-based learning", tone |-> "Formal"],
     [role |-> "Δάσκαλος", subject |-> "Ιστορία",
      task |-> "Κριτική σκέψη", context |-> "Ειδικές ανάγκες",
      methodology |-> "Ομαδική εργασία", tone |-> "Φιλικός"]}

\* the request bodies that parse to a dict of texts
RequestData ==
    {form @@ [prompt |-> p, enhancement |-> e, theory_enhancement |-> t,
              template |-> tpl] :
        form \in RequestForms, p \in RequestPrompts,
        e \in {"enhanced", "basic"}, t \in {"", "udl"},
        tpl \in {"", "lesson_plan"}}
    \cup {[prompt |-> LongPrompt, enhancement |-> "basic"],
          [role |-> "Math Teacher"],
          [methodology |-> "Scaffolding", enhancement |-> "basic"]}

EncodeData(data) ==
    [k \in DOMAIN data |->
        IF k \in FormFields \cup {"prompt"} THEN Encode(data[k]) ELSE data[k]]

DecodeData(data) ==
    [k \in DOMAIN data |->
        IF k \in FormFields \cup {"prompt"} THEN Decode(data[k]) ELSE data[k]]

\* method, whether the try block of lines 237-251 completes, the parsed
\* body and the session key
Requests ==
    {[method |-> "GET", parses |-> FALSE, data |-> <<>>, session_key |-> "s1"],
     [method |-> "POST", parses |-> FALSE, data |-> <<>>, session_key |-> "s1"]}
    \cup [method : {"POST"}, parses : {TRUE},
          data : {EncodeData(d) : d \in RequestData}, session_key : {"s1"}]

\* the texts the model answers with
ReplyTexts ==
    {"",
     "Students will analyze and compare sources. Create a timeline!",
     "{\"theory_explanation\": \"Scaffolding is support.\", \"teaching_tip\": \"Fade it.\"}",
     "1. Add a \"duration\"\n2. Name the grade"}

\* the bodies of a 200 response
ReplyBodies ==
    [kind : {"candidates"}, text : ReplyTexts]
    \cup [kind : {"no_candidates", "empty_candidates", "not_json"}, text : {""}]

\* flesch_reading_ease of the generated text: a value or an exception
ReadingEases == {<<40>>, <<>>}

Init ==
    /\ pc = "idle"
    /\ call = NoCall
    /\ ret = NoReturn
    /\ req = NoRequest
    /\ payload = NoPayload
    /\ applied_theory = Unassigned
    /\ reply = NoReply
    /\ text_response = Unassigned
    /\ response = NoResponse
    /\ \/ sessions = {} /\ usage = <<>>
       \/ sessions = {"s1"} /\ usage = [t \in {"lesson_plan"} |-> 3]
    /\ records = <<>>

\* lines 234-251 and 466-467: a request that is turned away at once
Reject ==
    /\ pc = "idle"
    /\ \E r \in Requests :
        /\ r.method # "POST" \/ ~r.parses
        /\ req' = r
        /\ response' =
             IF r.method # "POST"
             THEN [status |-> 400, error |-> "Only POST requests are allowed."]
             ELSE [status |-> 400, error |-> "Invalid JSON"]
    /\ pc' = "responded"
    /\ UNCHANGED <<call_vars, payload, applied_theory, reply, text_response,
                   sessions, usage, records>>

\* lines 234-329: the body is parsed, the prompt prepared and the payload built
Receive ==
    /\ pc = "idle"
    /\ \E r \in Requests :
        /\ r.method = "POST" /\ r.parses
        /\ req' = r
        /\ LET data == DecodeData(r.data)
               prompt == Get(data, "prompt", "default prompt")
               prepared == prepare_prompt(data)
           IN /\ payload' =
                    [model |-> model_of(prompt),
                     text |-> Encode(prepared[1]),
                     maxOutputTokens |->
                         max_output_tokens(prepared[1],
                                           is_improvement_request(prompt))]
              /\ applied_theory' = prepared[2]
    /\ pc' = "posting"
    /\ UNCHANGED <<call_vars, reply, text_response, response, sessions, usage,
                   records>>

\* lines 354-359: requests.post raises Timeout after 30 seconds
PostTimeout ==
    /\ pc = "posting"
    /\ reply' = [outcome |-> "Timeout"]
    /\ response' =
         [status |-> 408, error |-> "Request timeout",
          response |-> "The request took too long. Please try again with a shorter prompt."]
    /\ pc' = "responded"
    /\ UNCHANGED <<call_vars, req, payload, applied_theory, text_response,
                   sessions, usage, records>>

\* lines 360-365: requests.post raises another RequestException
PostNetworkError ==
    /\ pc = "posting"
    /\ reply' = [outcome |-> "RequestException"]
    /\ response' =
         [status |-> 500, error |-> "Network error",
          response |-> "Network error occurred. Please check your connection and try again."]
    /\ pc' = "responded"
    /\ UNCHANGED <<call_vars, req, payload, applied_theory, text_response,
                   sessions, usage, records>>

\* lines 347-352: the API answers with a status other than 200
PostApiError ==
    /\ pc = "posting"
    /\ \E code \in {429, 503} :
        /\ reply' = [outcome |-> "response", status_code |-> code]
        /\ response' =
             [status |-> 500, error |-> "API Error: " \o ToString(code),
              response |-> "Sorry, there was an error generating your prompt. Please try again."]
    /\ pc' = "responded"
    /\ UNCHANGED <<call_vars, req, payload, applied_theory, text_response,
                   sessions, usage, records>>

\* lines 332-346: the API answers with status 200
PostOk ==
    /\ pc = "posting"
    /\ \E body \in ReplyBodies :
        reply' = [outcome |-> "response", status_code |-> 200, body |-> body]
    /\ pc' = "parsing"
    /\ UNCHANGED <<call_vars, req, payload, applied_theory, text_response,
                   response, sessions, usage, records>>

\* lines 367-396: the generated text is taken out of the response
ParseResponse ==
    /\ pc = "parsing"
    /\ text_response' =
         Encode(parse_response(reply.body,
                    Get(DecodeData(req.data), "prompt", "default prompt")))
    /\ pc' = "analytics"
    /\ UNCHANGED <<call_vars, req, payload, applied_theory, reply, response,
                   sessions, usage, records>>

\* lines 398-464: session and template rows, classification, the generation
\* record and the answer
Analytics ==
    /\ pc = "analytics"
    /\ \E reading_ease \in ReadingEases :
        LET data == DecodeData(req.data)
            text == Decode(text_response)
            template_used == Get(data, "template", "")
        IN /\ sessions' = sessions \cup {req.session_key}
           /\ usage' =
                IF template_used = "" THEN usage
                ELSE [t \in DOMAIN usage \cup {template_used} |->
                        IF t = template_used
                        THEN Get(usage, t, 0) + 1
                        ELSE usage[t]]
           /\ records' =
                Append(records,
                       generation_record(data, req.session_key, text,
                           applied_theory, analyze_content(text, reading_ease)))
    /\ response' = [status |-> 200, response |-> text_response]
    /\ pc' = "responded"
    /\ UNCHANGED <<call_vars, req, payload, applied_theory, reply, text_response>>

Next ==
    \/ Reject
    \/ Receive
    \/ PostTimeout
    \/ PostNetworkError
    \/ PostApiError
    \/ PostOk
    \/ ParseResponse
    \/ Analytics

Spec == Init /\ [][Next]_vars

\* the LLM call of the request failed: no generated text came out of it
Responded == pc = "responded"

LlmCallFailed ==
    \/ reply.outcome \in {"Timeout", "RequestException"}
    \/ /\ reply.outcome = "response"
       /\ \/ reply.status_code # 200
          \/ reply.body.kind # "candidates"

\* C8: when the LLM call times out or fails with a transport error, the
\* request still leaves a generation record, and that record marks the
\* generation as failed.
C8_FailedGenerationLogged ==
    (Responded /\ reply.outcome \in {"Timeout", "RequestException"})
    => \E i \in 1..Len(records) : ~records[i].success

\* C9: after an LLM failure (timeout, status other than 200, or a response
\* with no generated text in it) no content metrics have been computed from a
\* text, and the complexity level stored is the one the form fields alone give.
C9_FailedGenerationNotClassified ==
    (Responded /\ LlmCallFailed)
    => \A i \in 1..Len(records) :
          /\ records[i].content_analysis = EmptyDict
          /\ records[i].complexity_level =
                assess_complexity("", Decode(records[i].task),
                                  Decode(records[i].methodology))

\* C11: the subject category stored in a generation record is the one
\* enhanced_subject_classification gives with the request's subject as the
\* subject text, its task as the task text, the generated text as the
\* generated text and its role as the role text.
C11_SubjectArgumentsInRole ==
    \A i \in 1..Len(records) :
        records[i].subject_category =
            enhanced_subject_classification(Decode(records[i].subject),
                Decode(records[i].task), Decode(records[i].generated_prompt),
                Decode(records[i].role))

\* ------------------------------------------------------------------
\* SpecScores: the content-based tier of enhanced_subject_classification,
\* with the local scores it decides on
\* ------------------------------------------------------------------
\* the local scores before the first assignment to it
NoScores == <<>>

\* the local scores of enhanced_subject_classification when it returns
subject_scores_at_return(subject_text, task_text, generated_prompt, role_text) ==
    IF role_category(lower(role_text)) # "" THEN NoScores
    ELSE subject_scores(lower(subject_text \o " " \o task_text \o " "
                              \o generated_prompt))

ScoreInit ==
    /\ pc = "call"
    /\ call \in
         [fn : {"enhanced_subject_classification"},
          subject_text :
              EncodeAll(Texts({"chart", "art", "music", "Color theory"}, MaxWords)),
          task_text : {"", "algebra science"},
          generated_prompt :
              {"",
               "music and dance , fitness and nutrition , grammar and syntax , algebra , history , career",
               "algebra geometry calculus fractions equations functions"},
          role_text : {"", "Teacher", "Art Teacher"}]
    /\ ret = NoReturn
    /\ NoRequestYet

ScoreSubject ==
    /\ pc = "call"
    /\ call.fn = "enhanced_subject_classification"
    /\ ret' =
         [category |->
              enhanced_subject_classification(Decode(call.subject_text),
                  Decode(call.task_text), Decode(call.generated_prompt),
                  Decode(call.role_text)),
          scores |->
              subject_scores_at_return(Decode(call.subject_text),
                  Decode(call.task_text), Decode(call.generated_prompt),
                  Decode(call.role_text))]
    /\ pc' = "scored"
    /\ UNCHANGED <<call, request_vars>>

SpecScores == ScoreInit /\ [][ScoreSubject]_vars

\* the call has returned from the content-based tier: no role phrase matched
ScoredByContent == pc = "scored" /\ ret.scores # NoScores

\* the lowercased concatenation of subject, task and generated text
CombinedSubjectText ==
    lower(Decode(call.subject_text) \o " " \o Decode(call.task_text) \o " "
          \o Decode(call.generated_prompt))

\* the phrase occurs in the text with a space, or an end of the text, on
\* each side of it
OccursAsWholePhrase(text, phrase) ==
    \E i \in 1..(Len(text) - Len(phrase) + 1) :
        /\ SubSeq(text, i, i + Len(phrase) - 1) = phrase
        /\ (i = 1 \/ SubSeq(text, i - 1, i - 1) = " ")
        /\ (i + Len(phrase) - 1 = Len(text)
              \/ SubSeq(text, i + Len(phrase), i + Len(phrase)) = " ")

\* +2 per keyword and +5 per topic phrase of the category's lists that occurs
\* as a whole phrase
WholePhraseScore(c, text) ==
    2 * Cardinality({k \in 1..Len(SUBJECT_PATTERNS[c][2]) :
                        OccursAsWholePhrase(text, SUBJECT_PATTERNS[c][2][k])})
    + 5 * Cardinality({k \in 1..Len(SUBJECT_PATTERNS[c][3]) :
                          OccursAsWholePhrase(text, SUBJECT_PATTERNS[c][3][k])})

\* C12: a keyword or topic phrase counts for its category only where it
\* occurs as a whole space-delimited phrase of the lowercased concatenation of
\* subject, task and generated text, never inside a longer word; a subject of
\* only "chart" is not classified Arts.
C12_WordBoundaryScoring ==
    ScoredByContent =>
        LET text == CombinedSubjectText
        IN /\ \A c \in 1..Len(SUBJECT_PATTERNS) :
                 ret.scores[c] = WholePhraseScore(c, text)
           /\ (text = "chart  " => ret.category # "Arts")

\* a keyword sits inside a longer word of the text and gives its category
\* nothing, beside a keyword that counts
C12_Witness ==
    /\ ScoredByContent
    /\ CombinedSubjectText = "chart music  "
    /\ ret.scores[3] = 2
    /\ ret.category = "Other"

\* C13: with no role phrase matched, a sum of the seven category scores above
\* 25 gives Cross_Curricular, however the sum is spread over the categories.
C13_CrossCurricularThreshold ==
    (ScoredByContent /\ SumValues(ret.scores) > 25)
    => ret.category = "Cross_Curricular"

\* the whole sum sits in one category
C13_Witness ==
    /\ ScoredByContent
    /\ SumValues(ret.scores) > 25
    /\ MaxValue(ret.scores) = SumValues(ret.scores)
    /\ ret.category = "Cross_Curricular"

\* C14: with no role phrase matched and a sum of at most 25, the result is
\* the category of highest score when that score is above 3, the one listed
\* first in the table among those that tie for it, and Other otherwise.
C14_HighestScoreOrOther ==
    (ScoredByContent /\ SumValues(ret.scores) <= 25)
    => LET best == {c \in 1..Len(ret.scores) :
                       \A d \in 1..Len(ret.scores) : ret.scores[d] <= ret.scores[c]}
           first == CHOOSE c \in best : \A d \in best : c <= d
       IN ret.category =
            IF ret.scores[first] > 3 THEN SUBJECT_PATTERNS[first][1] ELSE "Other"

\* two categories tie for the highest score and the earlier one is returned
C14_Witness ==
    /\ ScoredByContent
    /\ SumValues(ret.scores) <= 25
    /\ ret.scores[1] = 4
    /\ ret.scores[3] = 4
    /\ MaxValue(ret.scores) = 4
    /\ ret.category = "STEM"

\* ------------------------------------------------------------------
\* SpecClassify: the four classifiers on one form and one generated text
\* ------------------------------------------------------------------
\* the number of form fields that are filled in
MaxFilled == 3

ClassifyInit ==
    /\ pc = "call"
    /\ call \in
         {c \in [fn : {"classify"},
                 subject_text :
                     {"", "algebra science", "poetry essay on the civil war",
                      "Color theory", "fitness sports", "grammar syntax",
                      "budgeting", "resume writing",
                      "algebra geometry calculus fractions equations functions"},
                 context_text :
                     EncodeAll({"", "Preschool", "middle school", "high school",
                                "Adult learners", "mixed-ability",
                                "online/remote learning", "Ειδικές ανάγκες"}),
                 methodology_text :
                     {"", "inquiry based", "pbl", "project based", "group work",
                      "differentiated instruction", "Rubrics", "Scaffolding"},
                 task_text :
                     {"", "Create a quiz", "analyze data", "solve it", "list"},
                 generated_prompt : {"", "Students apply the rule."}] :
             Cardinality({f \in {"subject_text", "context_text",
                                 "methodology_text", "task_text"} : c[f] # ""})
                 <= MaxFilled}
    /\ ret = NoReturn
    /\ NoRequestYet

Classify ==
    /\ pc = "call"
    /\ call.fn = "classify"
    /\ ret' =
         [subject |->
              enhanced_subject_classification(call.subject_text, call.task_text,
                  call.generated_prompt, ""),
          age_group |->
              enhanced_context_classification(Decode(call.context_text),
                  call.generated_prompt),
          methodology |->
              enhanced_methodology_classification(call.methodology_text,
                  call.task_text, call.generated_prompt),
          complexity |->
              assess_complexity(call.generated_prompt, call.task_text,
                  call.methodology_text)]
    /\ pc' = "classified"
    /\ UNCHANGED <<call, request_vars>>

SpecClassify == ClassifyInit /\ [][Classify]_vars

Classified == pc = "classified"

\* every form field and the generated text are empty
AllEmpty ==
    /\ call.subject_text = ""
    /\ call.context_text = ""
    /\ call.methodology_text = ""
    /\ call.task_text = ""
    /\ call.generated_prompt = ""

\* C15: with every form field and the generated text empty the four
\* classifiers answer Primary, Direct_Instruction, Other and Intermediate.
C15_DefaultLabels ==
    (Classified /\ AllEmpty)
    => ret = [subject |-> "Other", age_group |-> "Primary",
              methodology |-> "Direct_Instruction",
              complexity |-> "Intermediate"]

\* the classifiers have answered for the empty form
C15_Witness ==
    /\ Classified
    /\ AllEmpty
    /\ ret.subject # ""
    /\ ret.methodology = "Direct_Instruction"

SubjectLabels ==
    {"STEM", "Humanities", "Arts", "PE_Health", "Languages", "Life_Skills",
     "Vocational", "Cross_Curricular", "Other"}

AgeGroupLabels ==
    {"Early_Childhood", "Primary", "Lower_Secondary", "Upper_Secondary", "Adult",
     "Mixed"}

MethodologyLabels ==
    {"Direct_Instruction", "Inquiry_Based", "Problem_Based", "Project_Based",
     "Collaborative", "Differentiated", "Assessment_Focused", "Scaffolding"}

ComplexityLabels == {"Basic", "Intermediate", "Advanced", "Expert"}

\* C16: each classifier answers with a label of its closed set.
C16_ClosedLabelSets ==
    Classified
    => /\ ret.subject \in SubjectLabels
       /\ ret.age_group \in AgeGroupLabels
       /\ ret.methodology \in MethodologyLabels
       /\ ret.complexity \in ComplexityLabels

\* every label is decided by a score or a vote, none by a default: the
\* complexity comes from the votes of the generated text alone
C16_Witness ==
    /\ Classified
    /\ call.task_text = ""
    /\ call.generated_prompt = "Students apply the rule."
    /\ ret.subject = "Cross_Curricular"
    /\ ret.age_group = "Mixed"
    /\ ret.methodology = "Direct_Instruction"
    /\ ret.complexity = "Intermediate"

\* ------------------------------------------------------------------
\* SpecComplexity: assess_complexity on one task, methodology and text
\* ------------------------------------------------------------------
ComplexityInit ==
    /\ pc = "call"
    /\ call \in
         [fn : {"assess_complexity"},
          task_text :
              Texts({"create", "list", "vocabulary", "homework"}, MaxWords)
              \cup {"Create a comprehensive lesson plan for teaching photosynthesis",
                    "Analyze and list the causes",
                    "Students in small groups will then compare",
                    "Warm-up activity",
                    "Designers of tomorrow",
                    "Pupils in class will then listen to music"},
          methodology_text : {"", "Rubrics"},
          prompt_text :
              {"",
               "a complete lesson plan to list and name",
               "assessment rubric to list and name",
               "unit plan warm-up activity",
               "warm-up activity: name and recall the facts",
               "warm-up activity to analyze and evaluate sources",
               "warm-up activity to create a poem",
               "vocabulary list analyze evaluate",
               "list and create"}]
    /\ ret = NoReturn
    /\ NoRequestYet

AssessComplexity ==
    /\ pc = "call"
    /\ call.fn = "assess_complexity"
    /\ ret' =
         [level |->
              assess_complexity(call.prompt_text, call.task_text,
                                call.methodology_text),
          votes |->
              complexity_votes_at_return(call.prompt_text, call.task_text,
                                         call.methodology_text)]
    /\ pc' = "assessed"
    /\ UNCHANGED <<call, request_vars>>

SpecComplexity == ComplexityInit /\ [][AssessComplexity]_vars

Assessed == pc = "assessed"

\* the ladder of the primary-verb tier
Ladder == <<"Expert", "Advanced", "Intermediate", "Basic">>

PrimaryVerbsOf(label) ==
    primary_verbs[CHOOSE g \in 1..Len(primary_verbs) : primary_verbs[g][1] = label][2]

\* the first 30 characters of the lowercased task
TaskStart == SliceTo(lower(call.task_text), 30)

\* a verb of the group is matched at the start of the task start or as a
\* word of it
GroupFound(label) ==
    LET task_start == TaskStart
        verbs == PrimaryVerbsOf(label)
    IN \E v \in 1..Len(verbs) :
          \/ startswith(task_start, verbs[v])
          \/ OccursAsWholePhrase(task_start, verbs[v])

PrimaryVerbFound == \E k \in 1..Len(Ladder) : GroupFound(Ladder[k])

\* C17: when the task start has a primary verb, the result is the label of
\* the first group of the ladder Expert, Advanced, Intermediate, Basic with a
\* matching verb, whatever the methodology text and the generated text are.
C17_PrimaryVerbLadder ==
    (Assessed /\ PrimaryVerbFound)
    => ret.level = Ladder[Min({k \in 1..Len(Ladder) : GroupFound(Ladder[k])})]

\* verbs of two groups in the task start, and a generated text whose
\* override phrase and votes all point to Basic
C17_Witness ==
    /\ Assessed
    /\ call.task_text = "Analyze and list the causes"
    /\ call.prompt_text = "warm-up activity: name and recall the facts"
    /\ GroupFound("Advanced")
    /\ GroupFound("Basic")
    /\ ret.level = "Advanced"

\* the text the overrides and the votes look at
CombinedComplexityText ==
    lower(call.task_text \o " " \o call.methodology_text \o " " \o call.prompt_text)

HasExpertPhrase ==
    AnyIn({"complete lesson plan", "lesson plan with objectives", "unit plan",
           "assessment rubric", "create rubric", "design rubric"},
          CombinedComplexityText)

HasPlainWarmUp ==
    /\ Contains(CombinedComplexityText, "warm-up activity")
    /\ ~AnyIn({"complex", "advanced", "create"}, CombinedComplexityText)

HasVocabularyList ==
    /\ Contains(CombinedComplexityText, "vocabulary")
    /\ Contains(CombinedComplexityText, "list")

\* the labels in the order that decides a tie of votes
VoteOrder == <<"Basic", "Intermediate", "Advanced", "Expert">>

\* the label the votes give: the earliest of the labels with the most votes
\* when that total is at least 3, Intermediate otherwise
VoteWinner(votes) ==
    LET most == {c \in 1..Len(votes) :
                    \A d \in 1..Len(votes) : votes[d] <= votes[c]}
        first == CHOOSE c \in most : \A d \in most : c <= d
    IN IF votes[first] >= 3 THEN VoteOrder[first] ELSE "Intermediate"

\* C18 as stated: with no primary verb, an Expert phrase yields Expert and a
\* warm-up activity without 'complex', 'advanced', 'create' yields Basic.
C18_OverridesAsListed ==
    (Assessed /\ ~PrimaryVerbFound)
    => /\ HasExpertPhrase => ret.level = "Expert"
       /\ HasPlainWarmUp => ret.level = "Basic"

\* C18: with no primary verb the overrides are tested in a fixed order and
\* the first that applies decides, whatever the votes are: an Expert phrase
\* yields Expert; otherwise a warm-up activity without 'complex', 'advanced',
\* 'create' yields Basic; otherwise 'vocabulary' together with 'list' yields
\* Basic; the votes decide only when none of these applies.
C18_OverrideOrder ==
    (Assessed /\ ~PrimaryVerbFound)
    => ret.level =
         IF HasExpertPhrase THEN "Expert"
         ELSE IF HasPlainWarmUp THEN "Basic"
         ELSE IF HasVocabularyList THEN "Basic"
         ELSE VoteWinner(ret.votes)

\* an Expert phrase and a plain warm-up activity in one text, no primary verb
C18_Witness ==
    /\ Assessed
    /\ ~PrimaryVerbFound
    /\ HasExpertPhrase
    /\ HasPlainWarmUp
    /\ ret.level = "Expert"

\* the score of one Bloom level: 3 for each of its verbs that is a word of
\* the text, 2 for each of its task phrases that occurs in the text
BloomLevelScore(b, text) ==
    LET verbs == BLOOMS_COMPLEXITY_INDICATORS[b][2]
        tasks == BLOOMS_COMPLEXITY_INDICATORS[b][3]
    IN 3 * Cardinality({v \in 1..Len(verbs) : OccursAsWholePhrase(text, verbs[v])})
       + 2 * Cardinality({t \in 1..Len(tasks) : Contains(text, tasks[t])})

\* the votes of a label: the scores of the Bloom levels mapped to it
VotesFor(label, text) ==
    SumValues([b \in 1..Len(BLOOMS_COMPLEXITY_INDICATORS) |->
                  IF BLOOMS_COMPLEXITY_INDICATORS[b][4] = label
                  THEN BloomLevelScore(b, text) ELSE 0])

NoOverride == ~HasExpertPhrase /\ ~HasPlainWarmUp /\ ~HasVocabularyList

\* C19: with no primary verb and no override, each Bloom level adds 3 per
\* matched verb and 2 per matched task phrase to the label it is mapped to;
\* the result is the label with the most votes when that total is at least
\* 3, the earliest of Basic, Intermediate, Advanced, Expert on a tie, and
\* Intermediate otherwise.
C19_VoteCount ==
    (Assessed /\ ~PrimaryVerbFound /\ NoOverride)
    => LET text == CombinedComplexityText
           votes == [c \in 1..Len(VoteOrder) |-> VotesFor(VoteOrder[c], text)]
       IN /\ ret.votes = votes
          /\ ret.level = VoteWinner(votes)

\* Basic and Expert tie at 3 votes and Basic is returned
C19_Witness ==
    /\ Assessed
    /\ ~PrimaryVerbFound
    /\ NoOverride
    /\ ret.votes = <<3, 0, 0, 3>>
    /\ ret.level = "Basic"

\* ------------------------------------------------------------------
\* SpecContent: analyze_content on one text
\* ------------------------------------------------------------------
ContentInit ==
    /\ pc = "call"
    /\ call \in
         [fn : {"analyze_content"},
          prompt_text :
              Texts({"Students will", "create.", "for example", "design?!"},
                    MaxWords)
              \cup {" ", "Analyze and evaluate digital tools. Engage the learners!"},
          reading_ease : {<<40>>, <<120>>, <<-20>>, <<>>}]
    /\ ret = NoReturn
    /\ NoRequestYet

AnalyzeContent ==
    /\ pc = "call"
    /\ call.fn = "analyze_content"
    /\ ret' = analyze_content(call.prompt_text, call.reading_ease)
    /\ pc' = "analyzed"
    /\ UNCHANGED <<call, request_vars>>

SpecContent == ContentInit /\ [][AnalyzeContent]_vars

Analyzed == pc = "analyzed"

\* the fields of the record of content metrics
ContentFields ==
    {"prompt_word_count", "prompt_sentence_count", "prompt_complexity_score",
     "blooms_keywords_count", "udl_keywords_count", "tpack_keywords_count",
     "pedagogical_keywords_count", "specificity_score", "actionability_score"}

\* C20: analyze_content returns for every text, the empty text included, a
\* record with every one of its fields populated.
C20_AllFieldsPopulated ==
    Analyzed
    => /\ ret # EmptyDict
       /\ \A f \in ContentFields : f \in DOMAIN ret

\* the number of places of the text where the phrase begins
Occurrences(text, phrase) ==
    Cardinality({i \in 1..(Len(text) - Len(phrase) + 1) :
                    SubSeq(text, i, i + Len(phrase) - 1) = phrase})

\* the occurrences of the specific phrases in the lowercased text
SpecificOccurrences(text) ==
    LET text_lower == lower(text)
    IN SumValues([t \in 1..Len(specific_terms) |->
                     Occurrences(text_lower, specific_terms[t])])

\* C21: the specificity score is 2 points for each occurrence of a specific
\* phrase in the lowercased text, capped at 10.
C21_SpecificityPerOccurrence ==
    (Analyzed /\ ret # EmptyDict)
    => ret.specificity_score =
         Min({10, 2 * SpecificOccurrences(call.prompt_text)})

\* ------------------------------------------------------------------
\* SpecPatterns: the age-group and the methodology classifier on the
\* dropdown phrases and on texts around them
\* ------------------------------------------------------------------
\* how many entries at the head of each list of AGE_PATTERNS stand under
\* the comments that mark the dropdown options
AgeDropdownCount == <<3, 3, 3, 3, 1, 9>>

\* the same for METHODOLOGY_PATTERNS
MethodologyDropdownCount == <<6, 2, 2, 2, 2, 6, 6, 2>>

DropdownPhrases(table, counts) ==
    UNION {{table[g][2][i] : i \in 1..counts[g]} : g \in 1..Len(table)}

PatternsInit ==
    /\ pc = "call"
    /\ call \in
         [fn : {"enhanced_context_classification"},
          context_text :
              DropdownPhrases(AGE_PATTERNS, AgeDropdownCount)
              \cup {"", "kindergarten elementary", "Traditional classroom",
                    "ESL/EFL", "online/remote learning"},
          generated_prompt : {"", "for high school senior students"}]
         \cup
         [fn : {"enhanced_methodology_classification"},
          methodology_text :
              DropdownPhrases(METHODOLOGY_PATTERNS, MethodologyDropdownCount)
              \cup {"", "group work", "Group work today", "pbl", "modeling"},
          task_text : {"", "Create a quiz"},
          generated_prompt :
              {"", "lecture presentation", "feedback and reflection"}]
    /\ ret = NoReturn
    /\ NoRequestYet

ClassifyContext ==
    /\ pc = "call"
    /\ call.fn = "enhanced_context_classification"
    /\ ret' = [age_group |->
                  enhanced_context_classification(call.context_text,
                                                  call.generated_prompt)]
    /\ pc' = "matched"
    /\ UNCHANGED <<call, request_vars>>

ClassifyMethodology ==
    /\ pc = "call"
    /\ call.fn = "enhanced_methodology_classification"
    /\ ret' = [methodology |->
                  enhanced_methodology_classification(call.methodology_text,
                      call.task_text, call.generated_prompt)]
    /\ pc' = "matched"
    /\ UNCHANGED <<call, request_vars>>

SpecPatterns == PatternsInit /\ [][ClassifyContext \/ ClassifyMethodology]_vars

ContextClassified ==
    pc = "matched" /\ call.fn = "enhanced_context_classification"

MethodologyClassified ==
    pc = "matched" /\ call.fn = "enhanced_methodology_classification"

\* the index of the first of the highest scores
FirstOfHighest(scores) ==
    LET highest == {c \in 1..Len(scores) :
                       \A d \in 1..Len(scores) : scores[d] <= scores[c]}
    IN CHOOSE c \in highest : \A d \in highest : c <= d

\* the score of an age bucket: 10 for a phrase of it that is the whole
\* lowercased context, 3 for any other phrase of it that occurs in the
\* context and generated text, and the fixed bonuses
AgeScore(g, context_text, generated_prompt) ==
    LET text == lower(context_text \o " " \o generated_prompt)
        phrases == AGE_PATTERNS[g][2]
        bucket == AGE_PATTERNS[g][1]
    IN SumValues([i \in 1..Len(phrases) |->
                     IF ~Contains(text, phrases[i]) THEN 0
                     ELSE IF phrases[i] = lower(context_text) THEN 10 ELSE 3])
       + SumValues([e \in 1..Len(environment_mappings) |->
                     IF /\ environment_mappings[e][2] = bucket
                        /\ Contains(text, environment_mappings[e][1])
                     THEN 5 ELSE 0])
       + (IF /\ bucket = "Mixed"
             /\ AnyIn({"mixed-ability", "esl/efl", "learning difficulties"}, text)
          THEN 5 ELSE 0)

\* C22: the age group returned is the bucket of highest score, the first
\* listed on a tie, and Primary when no bucket scores above zero.
C22_AgeGroupByScore ==
    ContextClassified
    => LET scores == [g \in 1..Len(AGE_PATTERNS) |->
                         AgeScore(g, call.context_text, call.generated_prompt)]
           best == FirstOfHighest(scores)
       IN ret.age_group =
            IF scores[best] > 0 THEN AGE_PATTERNS[best][1] ELSE "Primary"

\* an exact match of 10 wins over two other matches of 3 each
C22_Witness ==
    /\ ContextClassified
    /\ call.context_text = "preschool"
    /\ AgeScore(1, call.context_text, call.generated_prompt) = 10
    /\ AgeScore(4, call.context_text, call.generated_prompt) = 6
    /\ ret.age_group = "Early_Childhood"

\* the score of a methodology category: for each phrase of it found in the
\* lowercased methodology, task and generated text, 15 when it is the whole
\* lowercased methodology field, else 10 when a word of the field occurs
\* inside the phrase, else 3
MethodologyScore(m, methodology_text, task_text, generated_prompt) ==
    LET text == lower(methodology_text \o " " \o task_text \o " "
                      \o generated_prompt)
        field == lower(methodology_text)
        words == split(field)
        phrases == METHODOLOGY_PATTERNS[m][2]
    IN SumValues([i \in 1..Len(phrases) |->
                     IF ~Contains(text, phrases[i]) THEN 0
                     ELSE IF phrases[i] = field THEN 15
                     ELSE IF \E w \in words : Contains(phrases[i], w) THEN 10
                     ELSE 3])

\* C23: the methodology returned is the category of highest score, the
\* first listed on a tie, and Direct_Instruction when no category scores
\* above zero.
C23_MethodologyByScore ==
    MethodologyClassified
    => LET scores == [m \in 1..Len(METHODOLOGY_PATTERNS) |->
                         MethodologyScore(m, call.methodology_text,
                             call.task_text, call.generated_prompt)]
           best == FirstOfHighest(scores)
       IN ret.methodology =
            IF scores[best] > 0 THEN METHODOLOGY_PATTERNS[best][1]
            ELSE "Direct_Instruction"

\* a word of the field inside a phrase scores 10 and wins over two plain
\* matches of 3 each
C23_Witness ==
    /\ MethodologyClassified
    /\ call.methodology_text = "Group work today"
    /\ call.task_text = ""
    /\ call.generated_prompt = "lecture presentation"
    /\ MethodologyScore(5, call.methodology_text, call.task_text,
                        call.generated_prompt) = 10
    /\ MethodologyScore(1, call.methodology_text, call.task_text,
                        call.generated_prompt) = 6
    /\ ret.methodology = "Collaborative"

\* C24: a dropdown phrase of the methodology table, passed as the
\* methodology field with the other texts empty, is classified under the
\* category that lists it; likewise a dropdown phrase of the age-group
\* table passed as the context field.
C24_DropdownCoverage ==
    /\ (MethodologyClassified /\ call.task_text = "" /\ call.generated_prompt = "")
       => \A m \in 1..Len(METHODOLOGY_PATTERNS) :
            \A i \in 1..MethodologyDropdownCount[m] :
               METHODOLOGY_PATTERNS[m][2][i] = call.methodology_text
               => ret.methodology = METHODOLOGY_PATTERNS[m][1]
    /\ (ContextClassified /\ call.generated_prompt = "")
       => \A g \in 1..Len(AGE_PATTERNS) :
            \A i \in 1..AgeDropdownCount[g] :
               AGE_PATTERNS[g][2][i] = call.context_text
               => ret.age_group = AGE_PATTERNS[g][1]

\* a dropdown phrase that also holds a phrase of another category
C24_Witness ==
    /\ MethodologyClassified
    /\ call.methodology_text =
         "students solve problems with ai hints and scaffolding"
    /\ call.methodology_text = METHODOLOGY_PATTERNS[3][2][2]
    /\ call.task_text = ""
    /\ call.generated_prompt = ""
    /\ ret.methodology = "Problem_Based"

\* C25: a record marked successful exists only for a request whose LLM
\* response had status 200 and carried a generated text, and no record
\* marked successful holds a placeholder apology as its generated prompt.
C25_SuccessMeansGeneratedText ==
    \A i \in 1..Len(records) :
        records[i].success
        => /\ reply.outcome = "response"
           /\ reply.status_code = 200
           /\ reply.body.kind = "candidates"
           /\ Decode(records[i].generated_prompt)
                \notin {NoPromptGenerated, UnexpectedError}

PrimaryTierFired == Assessed /\ ret.votes = NoVotes

\* the verb is a complete space-delimited word of the lowercased task that
\* lies within its first 30 characters
CompleteWordInTaskStart(verb) ==
    LET task == lower(call.task_text)
    IN \E i \in 1..(Len(task) - Len(verb) + 1) :
          /\ i + Len(verb) - 1 <= 30
          /\ SubSeq(task, i, i + Len(verb) - 1) = verb
          /\ (i = 1 \/ SubSeq(task, i - 1, i - 1) = " ")
          /\ (i + Len(verb) - 1 = Len(task)
                \/ SubSeq(task, i + Len(verb), i + Len(verb)) = " ")

\* C27: the primary-verb tier fires only when a listed verb is a complete
\* space-delimited word of the task within its first 30 characters.
C27_TierNeedsCompleteWord ==
    PrimaryTierFired
    => \E k \in 1..Len(Ladder) :
          \E v \in 1..Len(PrimaryVerbsOf(Ladder[k])) :
             CompleteWordInTaskStart(PrimaryVerbsOf(Ladder[k])[v])

\* the request ran in enhanced mode and asked neither for a theory
\* explanation nor for prompt improvements
EnhancedRegularRequest ==
    LET data == DecodeData(req.data)
    IN /\ Get(data, "enhancement", "enhanced") = "enhanced"
       /\ ~is_special_request(Get(data, "prompt", "default prompt"))

\* C28: the record's selected_theory is set exactly for an enhanced regular
\* request, and is then the theory add_selected_theory_enhancement returned;
\* theory_auto_suggested is true exactly when, for such a request, the user
\* supplied no theory.
C28_TheoryBookkeeping ==
    \A i \in 1..Len(records) :
        /\ records[i].selected_theory # None <=> EnhancedRegularRequest
        /\ EnhancedRegularRequest => records[i].selected_theory = applied_theory
        /\ records[i].theory_auto_suggested
             <=> (/\ EnhancedRegularRequest
                  /\ Get(req.data, "theory_enhancement", "") = "")

\* a record of an enhanced regular request whose theory was suggested
C28_Witness ==
    /\ Len(records) = 1
    /\ EnhancedRegularRequest
    /\ Get(req.data, "theory_enhancement", "") = ""
    /\ records[1].theory_auto_suggested
    /\ records[1].selected_theory = applied_theory
    /\ applied_theory \in {"blooms", "udl", "tpack", "constructivist",
                           "social_learning", "scaffolding", "differentiation"}

\* the choices PromptGeneration declares for its four category fields
CategoryChoices ==
    [subject_category |->
         {"STEM", "Humanities", "Languages", "Arts", "PE_Health", "Life_Skills",
          "Vocational", "Cross_Curricular", "Other"},
     age_group_category |->
         {"Early_Childhood", "Primary", "Lower_Secondary", "Upper_Secondary",
          "Adult", "Mixed"},
     methodology_category |->
         {"Direct_Instruction", "Inquiry_Based", "Problem_Based", "Collaborative",
          "Project_Based", "Differentiated", "Assessment_Focused",
          "Technology_Enhanced"},
     complexity_level |-> {"Basic", "Intermediate", "Advanced", "Expert"}]

\* C29: every category value stored in a generation record is one of the
\* choices the model declares for its field.
C29_StoredCategoriesAreChoices ==
    \A i \in 1..Len(records) :
        \A field \in DOMAIN CategoryChoices :
            records[i][field] \in CategoryChoices[field]

\* ------------------------------------------------------------------
\* SpecUsage: the template-usage update of lines 402-407, run by several
\* requests at once
\* ------------------------------------------------------------------
\* the number of concurrent requests
MaxRequests == 3

\* the template all of them name
SharedTemplate == "lesson_plan"

\* the requests stand before line 405; the row of the template exists.
\* call[p] is the usage_count of the template_obj of request p, once loaded
UsageInit ==
    /\ pc = [p \in 1..MaxRequests |-> "get"]
    /\ call = [p \in 1..MaxRequests |-> <<>>]
    /\ ret = NoReturn
    /\ req = NoRequest
    /\ payload = NoPayload
    /\ applied_theory = Unassigned
    /\ reply = NoReply
    /\ text_response = Unassigned
    /\ response = NoResponse
    /\ sessions = {}
    /\ usage \in [{SharedTemplate} -> 0..2]
    /\ records = <<>>

\* line 405: TemplateUsage.objects.get_or_create loads the row
GetUsage(p) ==
    /\ pc[p] = "get"
    /\ call' = [call EXCEPT ![p] = <<usage[SharedTemplate]>>]
    /\ pc' = [pc EXCEPT ![p] = "increment"]
    /\ UNCHANGED <<ret, request_vars>>

\* line 406: usage_count += 1 on the loaded object
IncrementUsage(p) ==
    /\ pc[p] = "increment"
    /\ call' = [call EXCEPT ![p] = <<call[p][1] + 1>>]
    /\ pc' = [pc EXCEPT ![p] = "save"]
    /\ UNCHANGED <<ret, request_vars>>

\* line 407: save() writes the object's usage_count to the row
SaveUsage(p) ==
    /\ pc[p] = "save"
    /\ usage' = [usage EXCEPT ![SharedTemplate] = call[p][1]]
    /\ pc' = [pc EXCEPT ![p] = "saved"]
    /\ UNCHANGED <<call, ret, req, payload, applied_theory, reply,
                   text_response, response, sessions, records>>

SpecUsage ==
    UsageInit
    /\ [][\E p \in 1..MaxRequests :
              GetUsage(p) \/ IncrementUsage(p) \/ SaveUsage(p)]_vars

AllSaved == \A p \in 1..MaxRequests : pc[p] = "saved"

\* the usage count before the requests, once all of them have incremented:
\* the request that loaded first holds that count plus one, and no request
\* holds less
CountBefore == Min({call[p][1] : p \in 1..MaxRequests}) - 1

\* C30: when all the requests have saved, the usage count of the template
\* is higher than before by the number of requests.
C30_NoLostIncrement ==
    AllSaved => usage[SharedTemplate] = CountBefore + MaxRequests

====
